---- MODULE Spec2Model ----
(***************************************************************************)
(* The OpenEDI importer (src/unnamed/part_000, shared/utils/openedi-       *)
(* importer): usage classification, the legacy converter, the schema       *)
(* (OpenAPI) converter and the format dispatcher.                          *)
(*                                                                         *)
(* JavaScript values are modelled as follows.                              *)
(*   - a string is a TLA+ string; its characters are read with SubSeq;     *)
(*   - a value that may be undefined is None or Some(v);                   *)
(*   - a parsed JSON value is a record tagged by t: "null", "number",      *)
(*     "string", "boolean", "array" (items) or "object" (one optional      *)
(*     field per key the importer reads);                                  *)
(*   - a call completes with Return(v) or Throw(e);                        *)
(*   - uuidv4() is a counter: the n-th identifier generated is n;          *)
(*   - new Date().toISOString() is the reading of a clock that never runs  *)
(*     backwards;                                                          *)
(*   - an array or object whose identity matters carries a ref naming its  *)
(*     allocation (owner entity, allocation site, index).                  *)
(***************************************************************************)
EXTENDS Integers, Sequences, FiniteSets, TLC

VARIABLES
    input,      \* the argument of the calls: a text, a token, a document
    outcome,    \* the completion of the last call
    op,         \* the entry point last called ("none" before any call)
    clock,      \* the last reading of the system clock
    dateReads,  \* how many times the last call read the clock
    uuidCount,  \* how many identifiers uuidv4() has generated so far
    specification,  \* the Specification the editors show (none before one is opened)
    edits       \* how many editor operations were applied to it

vars == <<input, outcome, op, clock, dateReads, uuidCount, specification, edits>>

----------------------------------------------------------------------------
(* Bounds of the model *)

MaxClock == 1          \* the clock reads 0..MaxClock
MaxUuid == 2           \* a call starts while at most MaxUuid identifiers exist
CallStackLimit == 4    \* nested importOpenAPILoop calls the stack can hold
MaxDepth == 2          \* nesting depth of the loops of a legacy document
MaxElements == 2       \* elements of a legacy segment
MaxProps == 2          \* properties of a transaction-set definition
MaxItems == 2          \* items of a top-level array
MaxSegmentProps == 3   \* properties of a segment definition converted alone
MaxEdits == 2          \* editor operations applied to a Specification

----------------------------------------------------------------------------
(* JavaScript values *)

None == <<>>
Some(v) == <<v>>

Return(v) == [ok |-> TRUE, value |-> v]
Throw(e) == [ok |-> FALSE, error |-> e]

\* the parsed JSON null
JSONNull == [t |-> "null"]

JSError(name, message) == [name |-> name, message |-> message]

\* a truthy string is defined and non-empty; a truthy number is defined and
\* not 0
TruthyStr(o) == o # None /\ o[1] # ""
TruthyNum(o) == o # None /\ o[1] # 0

\* a || b on optional strings and on optional numbers
OrStr(a, b) == IF TruthyStr(a) THEN a ELSE b
OrNum(a, b) == IF TruthyNum(a) THEN a ELSE b

\* `${x}`
TemplateStr(o) == IF o = None THEN "undefined" ELSE o[1]

\* v.f for a parsed value v: undefined unless v is an object holding f
Field(v, f) == IF v.t = "object" /\ f \in DOMAIN v THEN v[f] ELSE None

CharAt(s, i) == SubSeq(s, i, i)

LowerCaseLetters == "abcdefghijklmnopqrstuvwxyz"
UpperCaseLetters == "ABCDEFGHIJKLMNOPQRSTUVWXYZ"

\* the upper-case letter of each lower-case letter
UpperOf ==
    [c \in {CharAt(LowerCaseLetters, i) : i \in 1..Len(LowerCaseLetters)} |->
       CharAt(UpperCaseLetters,
              CHOOSE i \in 1..Len(LowerCaseLetters) : CharAt(LowerCaseLetters, i) = c)]

UpperChar(c) == IF c \in DOMAIN UpperOf THEN UpperOf[c] ELSE c

RECURSIVE toUpperCase(_)
toUpperCase(s) ==
    IF s = "" THEN "" ELSE UpperChar(CharAt(s, 1)) \o toUpperCase(Tail(s))

uuidv4(n) == n

ArrRef(owner, site) == [owner |-> owner, site |-> site, idx |-> 0]
ObjRef(owner, site, i) == [owner |-> owner, site |-> site, idx |-> i]

----------------------------------------------------------------------------
(* Usage classifier *)

\* parseUsage comparing the token as written, without upper-casing it
parseUsageAsWritten(req) ==
    CASE req = Some("M") -> "M"
      [] req = Some("O") -> "O"
      [] req = Some("C") \/ req = Some("X") -> "C"
      [] OTHER -> "O"

parseUsage(req) ==
    LET u == IF req = None THEN None ELSE Some(toUpperCase(req[1]))
    IN  CASE u = Some("M") -> "M"
          [] u = Some("O") -> "O"
          [] u = Some("C") \/ u = Some("X") -> "C"
          [] OTHER -> "O"

----------------------------------------------------------------------------
(* Legacy converter *)

\* (x || []) for an optional array
OrEmpty(a) == IF a = None THEN <<>> ELSE a[1]

\* the array itself in place of a copy of it
SameArray(a, ref) == a

\* [...a]: a new array holding the same entries
SpreadCopy(a, ref) == [ref |-> ref, items |-> a.items]

convertElement(openEDIElement, position, uid) ==
    LET usage == parseUsage(openEDIElement.Req)
        codes == OrEmpty(openEDIElement.Codes)
        codeValues ==
            [ref |-> ArrRef(uid, "codeValues"),
             items |-> [i \in 1..Len(codes) |->
                          [ref |-> ObjRef(uid, "codeValue", i),
                           code |-> codes[i].Code,
                           description |-> codes[i].Description,
                           included |-> TRUE]]]
    IN  [id |-> uuidv4(uid),
         position |-> position,
         name |-> OrStr(openEDIElement.Name, openEDIElement.Id),
         dataType |-> OrStr(openEDIElement.DataType, Some("AN"))[1],
         minLength |-> OrNum(openEDIElement.MinLength, Some(0))[1],
         maxLength |-> OrNum(openEDIElement.MaxLength, Some(0))[1],
         usage |-> usage,
         baseUsage |-> Some(usage),
         codeValues |-> IF Len(codeValues.items) > 0 THEN Some(codeValues) ELSE None,
         baseCodes |-> IF Len(codeValues.items) > 0
                       THEN Some(SpreadCopy(codeValues, ArrRef(uid, "baseCodes")))
                       ELSE None]

\* identifiers generated by convertSegment: its own, then one per element
SegmentUuids(openEDISegment) == 1 + Len(OrEmpty(openEDISegment.Elements))

\* the segment literal of convertSegment
ConvertedSegment(openEDISegment, usage, maxUse, els, uid) ==
        [id |-> uuidv4(uid),
         name |-> openEDISegment.Id,
         description |-> OrStr(openEDISegment.Name, openEDISegment.Id),
         usage |-> usage,
         baseUsage |-> Some(usage),
         minUse |-> IF usage = "M" THEN 1 ELSE 0,
         maxUse |-> maxUse,
         baseMinUse |-> Some(IF usage = "M" THEN 1 ELSE 0),
         baseMaxUse |-> Some(maxUse),
         elements |-> [i \in 1..Len(els) |-> convertElement(els[i], i, uid + i)],
         order |-> None]

\* convertSegment with minUse 1 for every usage but Optional
convertSegmentUnlessOptional(openEDISegment, uid) ==
    [ConvertedSegment(openEDISegment, parseUsage(openEDISegment.Req),
                      OrNum(openEDISegment.Max, Some(1))[1],
                      OrEmpty(openEDISegment.Elements), uid)
       EXCEPT !.minUse = IF parseUsage(openEDISegment.Req) # "O" THEN 1 ELSE 0,
              !.baseMinUse = Some(IF parseUsage(openEDISegment.Req) # "O" THEN 1 ELSE 0)]

\* convertSegment putting one default element where Elements is omitted
convertSegmentDefaultElement(openEDISegment, uid) ==
    ConvertedSegment(openEDISegment, parseUsage(openEDISegment.Req),
                     OrNum(openEDISegment.Max, Some(1))[1],
                     IF openEDISegment.Elements = None
                     THEN <<[Id |-> None, Name |-> None, DataType |-> None,
                             MinLength |-> None, MaxLength |-> None, Req |-> None,
                             Codes |-> None]>>
                     ELSE openEDISegment.Elements[1],
                     uid)

\* the number an element identifier ends with, or the place of the element
SourceNumber(id, place) ==
    IF id = Some("N101") THEN 1 ELSE IF id = Some("N104") THEN 4 ELSE place

\* convertSegment taking each position from the element identifier
convertSegmentSourceNumbered(openEDISegment, uid) ==
    [ConvertedSegment(openEDISegment, parseUsage(openEDISegment.Req),
                      OrNum(openEDISegment.Max, Some(1))[1],
                      OrEmpty(openEDISegment.Elements), uid)
       EXCEPT !.elements =
                [i \in 1..Len(OrEmpty(openEDISegment.Elements)) |->
                   convertElement(OrEmpty(openEDISegment.Elements)[i],
                                  SourceNumber(OrEmpty(openEDISegment.Elements)[i].Id, i),
                                  uid + i)]]

convertSegment(openEDISegment, uid) ==
    ConvertedSegment(openEDISegment, parseUsage(openEDISegment.Req),
                     OrNum(openEDISegment.Max, Some(1))[1],
                     OrEmpty(openEDISegment.Elements), uid)

RECURSIVE LoopUuids(_)
RECURSIVE LoopsUuids(_, _)
\* identifiers generated by the first n conversions of a list of loops
LoopsUuids(loops, n) ==
    IF n = 0 THEN 0 ELSE LoopsUuids(loops, n - 1) + LoopUuids(loops[n])

RECURSIVE SegmentsUuids(_, _)
SegmentsUuids(segs, n) ==
    IF n = 0 THEN 0 ELSE SegmentsUuids(segs, n - 1) + SegmentUuids(segs[n])

\* identifiers generated by convertLoop: its own, its segments', its loops'
LoopUuids(openEDILoop) ==
    LET segs == OrEmpty(openEDILoop.Segments)
        loops == OrEmpty(openEDILoop.Loops)
    IN  1 + SegmentsUuids(segs, Len(segs)) + LoopsUuids(loops, Len(loops))

RECURSIVE convertLoop(_, _)
convertLoop(openEDILoop, uid) ==
    LET usage == parseUsage(openEDILoop.Req)
        maxUse == OrNum(openEDILoop.Max, Some(1))[1]
        segs == OrEmpty(openEDILoop.Segments)
        loops == OrEmpty(openEDILoop.Loops)
        segBase == uid + 1
        loopBase == segBase + SegmentsUuids(segs, Len(segs))
    IN  [id |-> uuidv4(uid),
         name |-> OrStr(openEDILoop.Id, openEDILoop.Name),
         description |-> openEDILoop.Name,
         usage |-> usage,
         baseUsage |-> Some(usage),
         minUse |-> IF usage = "M" THEN 1 ELSE 0,
         maxUse |-> maxUse,
         baseMinUse |-> Some(IF usage = "M" THEN 1 ELSE 0),
         baseMaxUse |-> Some(maxUse),
         segments |-> [i \in 1..Len(segs) |->
                         convertSegment(segs[i], segBase + SegmentsUuids(segs, i - 1))],
         loops |-> [i \in 1..Len(loops) |->
                      convertLoop(loops[i], loopBase + LoopsUuids(loops, i - 1))],
         order |-> None]

\* what a call leaves behind: its completion, the identifier counter after
\* it, and how many times it read the clock
Effect(completion, uuids, reads) ==
    [completion |-> completion, uuids |-> uuids, dateReads |-> reads]

\* the clock is read first, the id is generated next, and only then is the
\* first property of the argument read
importOpenEDISpec(openEDISpec, now, uid) ==
    LET TransactionSetId == Field(openEDISpec, "TransactionSetId")
        Name == Field(openEDISpec, "Name")
        Version == Field(openEDISpec, "Version")
        loops == OrEmpty(Field(openEDISpec, "Loops"))
    IN  IF openEDISpec.t = "null"
        THEN Effect(Throw(JSError("TypeError", "Cannot read properties of null")),
                    uid + 1, 1)
        ELSE Effect(Return(
          [id |-> uuidv4(uid),
           metadata |->
             [name |-> TemplateStr(TransactionSetId) \o " - " \o TemplateStr(Name),
              version |-> "1.0",
              transactionSet |-> TransactionSetId,
              transactionSetName |-> Name,
              ediVersion |-> OrStr(Version, Some("005010"))[1],
              createdDate |-> now,
              modifiedDate |-> now,
              baseSpecReference |->
                Some("OpenEDI/" \o TemplateStr(Version) \o "/" \o TemplateStr(TransactionSetId))],
           loops |-> [i \in 1..Len(loops) |->
                        convertLoop(loops[i], uid + 1 + LoopsUuids(loops, i - 1))],
           examples |-> <<>>]),
          uid + 1 + LoopsUuids(loops, Len(loops)), 1)

----------------------------------------------------------------------------
(* Strings of the schema converter *)

StartsWith(s, p) == Len(s) >= Len(p) /\ SubSeq(s, 1, Len(p)) = p

\* the least index at which sub occurs in s, 0 when it does not
IndexOf(s, sub) ==
    IF \E i \in 1..(Len(s) - Len(sub) + 1) : SubSeq(s, i, i + Len(sub) - 1) = sub
    THEN CHOOSE i \in 1..(Len(s) - Len(sub) + 1) :
           /\ SubSeq(s, i, i + Len(sub) - 1) = sub
           /\ \A j \in 1..(i - 1) : SubSeq(s, j, j + Len(sub) - 1) # sub
    ELSE 0

Includes(s, sub) == IndexOf(s, sub) # 0

\* s.replace(sub, ''): the first occurrence is removed
RemoveFirst(s, sub) ==
    LET i == IndexOf(s, sub)
    IN  IF i = 0 THEN s ELSE SubSeq(s, 1, i - 1) \o SubSeq(s, i + Len(sub), Len(s))

Digits == "0123456789"

\* the value of each digit
DigitOf ==
    [c \in {CharAt(Digits, i) : i \in 1..Len(Digits)} |->
       (CHOOSE i \in 1..Len(Digits) : CharAt(Digits, i) = c) - 1]

IsDigit(c) == c \in DOMAIN DigitOf
DigitValue(c) == DigitOf[c]

RECURSIVE TrailingDigits(_)
\* the length of the longest run of digits that ends s
TrailingDigits(s) ==
    IF s = "" \/ ~IsDigit(CharAt(s, Len(s))) THEN 0
    ELSE 1 + TrailingDigits(SubSeq(s, 1, Len(s) - 1))

\* the index at which /_(\d+)$/ matches, 0 when it does not
SuffixMatch(key) ==
    LET d == TrailingDigits(key)
    IN  IF d > 0 /\ d < Len(key) /\ CharAt(key, Len(key) - d) = "_"
        THEN Len(key) - d ELSE 0

RECURSIVE parseInt(_)
parseInt(digits) ==
    IF digits = "" THEN 0
    ELSE 10 * parseInt(SubSeq(digits, 1, Len(digits) - 1))
         + DigitValue(CharAt(digits, Len(digits)))

UpperCase == {CharAt(UpperCaseLetters, i) : i \in 1..Len(UpperCaseLetters)}

IsUpper(c) == c \in UpperCase

RECURSIVE SpaceBeforeCapitals(_)
\* s.replace(/([A-Z])/g, ' $1')
SpaceBeforeCapitals(s) ==
    IF s = "" THEN ""
    ELSE (IF IsUpper(CharAt(s, 1)) THEN " " ELSE "") \o CharAt(s, 1)
         \o SpaceBeforeCapitals(Tail(s))

RECURSIVE trim(_)
trim(s) ==
    IF s = "" THEN ""
    ELSE IF CharAt(s, 1) = " " THEN trim(Tail(s))
    ELSE IF CharAt(s, Len(s)) = " " THEN trim(SubSeq(s, 1, Len(s) - 1))
    ELSE s

\* parseDataTypeFromFormat comparing the token as it is written
parseDataTypeCaseSensitive(format) ==
    IF ~TruthyStr(format) THEN "AN"
    ELSE IF Includes(format[1], "_ID") THEN "ID"
    ELSE IF Includes(format[1], "_N0") THEN "N0"
    ELSE IF Includes(format[1], "_N2") THEN "N2"
    ELSE IF Includes(format[1], "_R") THEN "R"
    ELSE IF Includes(format[1], "_DT") THEN "DT"
    ELSE IF Includes(format[1], "_TM") THEN "TM"
    ELSE "AN"

parseDataTypeFromFormat(format) ==
    IF ~TruthyStr(format) THEN "AN"
    ELSE LET formatUpper == toUpperCase(format[1])
         IN  IF Includes(formatUpper, "_ID") THEN "ID"
             ELSE IF Includes(formatUpper, "_N0") THEN "N0"
             ELSE IF Includes(formatUpper, "_N2") THEN "N2"
             ELSE IF Includes(formatUpper, "_R") THEN "R"
             ELSE IF Includes(formatUpper, "_DT") THEN "DT"
             ELSE IF Includes(formatUpper, "_TM") THEN "TM"
             ELSE "AN"

parseElementNameFromKey(key) ==
    LET m == SuffixMatch(key)
        withoutSuffix == IF m = 0 THEN key ELSE SubSeq(key, 1, m - 1)
    IN  trim(SpaceBeforeCapitals(withoutSuffix))

getElementPosition(key) ==
    LET m == SuffixMatch(key)
    IN  IF m = 0 THEN 1 ELSE parseInt(SubSeq(key, m + 1, Len(key)))

----------------------------------------------------------------------------
(* Transaction-set template registry *)

\* the entries of the registry, in the order of the source
TRANSACTION_SET_TEMPLATES ==
    <<[code |-> "315", name |-> "Status Details (Ocean)",
       description |-> "Ocean shipment status details"],
      [code |-> "810", name |-> "Invoice",
       description |-> "Invoice transaction set"],
      [code |-> "850", name |-> "Purchase Order",
       description |-> "Purchase order transaction set"],
      [code |-> "855", name |-> "Purchase Order Acknowledgment",
       description |-> "PO acknowledgment"],
      [code |-> "856", name |-> "Ship Notice/Manifest",
       description |-> "Advance ship notice (ASN)"],
      [code |-> "820", name |-> "Payment Order/Remittance Advice",
       description |-> "Payment information"],
      [code |-> "990", name |-> "Response to a Load Tender",
       description |-> "Load tender response"],
      [code |-> "997", name |-> "Functional Acknowledgment",
       description |-> "FA transaction set"],
      [code |-> "999", name |-> "Implementation Acknowledgment",
       description |-> "IA transaction set"],
      [code |-> "204", name |-> "Motor Carrier Load Tender",
       description |-> "Load tender"],
      [code |-> "210", name |-> "Motor Carrier Freight Details and Invoice",
       description |-> "Freight invoice"],
      [code |-> "214", name |-> "Transportation Carrier Shipment Status Message",
       description |-> "Shipment status"],
      [code |-> "270", name |-> "Eligibility, Coverage or Benefit Inquiry",
       description |-> "Healthcare eligibility inquiry"],
      [code |-> "271", name |-> "Eligibility, Coverage or Benefit Information",
       description |-> "Healthcare eligibility response"],
      [code |-> "276", name |-> "Health Care Claim Status Request",
       description |-> "Claim status request"],
      [code |-> "277", name |-> "Health Care Claim Status Response",
       description |-> "Claim status response"],
      [code |-> "834", name |-> "Benefit Enrollment and Maintenance",
       description |-> "Enrollment transaction"],
      [code |-> "835", name |-> "Health Care Claim Payment/Advice",
       description |-> "Remittance advice"],
      [code |-> "837", name |-> "Health Care Claim",
       description |-> "Healthcare claim (Professional/Institutional/Dental)"]>>

\* the members every plain object inherits from Object.prototype; obj[key]
\* finds them when obj has no property key of its own
ObjectPrototypeKeys ==
    {"constructor", "toString", "toLocaleString", "valueOf", "hasOwnProperty",
     "isPrototypeOf", "propertyIsEnumerable", "__proto__", "__defineGetter__",
     "__defineSetter__", "__lookupGetter__", "__lookupSetter__"}

\* the name property of an inherited member: the functions carry their name,
\* constructor is the function Object, __proto__ is the prototype object
InheritedName(key) ==
    IF key = "__proto__" THEN None
    ELSE IF key = "constructor" THEN Some("Object")
    ELSE Some(key)

\* TRANSACTION_SET_TEMPLATES[transactionSetId], with the name read from it
Template(transactionSetId) ==
    LET at == {i \in 1..Len(TRANSACTION_SET_TEMPLATES) :
                 TRANSACTION_SET_TEMPLATES[i].code = transactionSetId}
    IN  IF at # {}
        THEN Some([name |-> Some(TRANSACTION_SET_TEMPLATES[CHOOSE i \in at : TRUE].name)])
        ELSE IF transactionSetId \in ObjectPrototypeKeys
        THEN Some([name |-> InheritedName(transactionSetId)])
        ELSE None

----------------------------------------------------------------------------
(* Schema (OpenAPI) converter *)

\* the format test satisfied by either key alone
isOpenAPIFormatEitherKey(parsed) ==
    /\ parsed.t \in {"object", "array"}
    /\ (Field(parsed, "openapi") # None \/ Field(parsed, "components") # None)

\* 'openapi' in parsed && 'components' in parsed, for an object or an array
\* (an array holds neither key); null and primitives are stopped before
isOpenAPIFormat(parsed) ==
    /\ parsed.t \in {"object", "array"}
    /\ Field(parsed, "openapi") # None
    /\ Field(parsed, "components") # None

\* a < b for two numbers written in canonical decimal digits
NumLess(a, b) ==
    \/ Len(a) < Len(b)
    \/ /\ Len(a) = Len(b)
       /\ \E i \in 1..Len(a) :
            /\ DigitValue(CharAt(a, i)) < DigitValue(CharAt(b, i))
            /\ \A j \in 1..(i - 1) : CharAt(a, j) = CharAt(b, j)

\* the key is an array index: a canonical decimal number below 2^32 - 1
IsArrayIndex(key) ==
    /\ key # ""
    /\ \A i \in 1..Len(key) : IsDigit(CharAt(key, i))
    /\ (Len(key) = 1 \/ CharAt(key, 1) # "0")
    /\ NumLess(key, "4294967295")

RECURSIVE InsertIndex(_, _, _)
InsertIndex(sorted, i, keys) ==
    IF sorted = <<>> \/ NumLess(keys[sorted[Len(sorted)]], keys[i])
    THEN Append(sorted, i)
    ELSE Append(InsertIndex(SubSeq(sorted, 1, Len(sorted) - 1), i, keys),
                sorted[Len(sorted)])

RECURSIVE ArrayIndexOrder(_, _)
\* the places, among the first n, of the keys that are array indices, in
\* ascending numeric order of the keys
ArrayIndexOrder(keys, n) ==
    IF n = 0 THEN <<>>
    ELSE IF IsArrayIndex(keys[n]) THEN InsertIndex(ArrayIndexOrder(keys, n - 1), n, keys)
    ELSE ArrayIndexOrder(keys, n - 1)

\* the order in which an object's own keys are enumerated: array indices
\* first, ascending, then the other keys in the order they were created,
\* which for a parsed object is the order of the text
EnumerationOrder(keys) ==
    ArrayIndexOrder(keys, Len(keys))
    \o SelectSeq([i \in 1..Len(keys) |-> i], LAMBDA i : ~IsArrayIndex(keys[i]))

\* Object.entries of an object whose members, in the order of the text, are
\* entries, with the given keys
ObjectEntries(entries, keys) ==
    [k \in 1..Len(entries) |-> entries[EnumerationOrder(keys)[k]]]

\* Object.entries(schema.properties)
PropertyEntries(props) == ObjectEntries(props, [i \in 1..Len(props) |-> props[i].key])

\* Object.entries(schemas)
SchemaEntries(schemas) == ObjectEntries(schemas, [i \in 1..Len(schemas) |-> schemas[i].name])

\* an inherited member read as a schema definition: a truthy value with
\* none of the attributes the importer reads
InheritedMember ==
    [msgId |-> None, loopId |-> None, segId |-> None, required |-> None,
     properties |-> None, enum |-> None]

\* allSchemas[refName]: the definition of that name, else what the object
\* inherits under that name
Lookup(allSchemas, refName) ==
    IF \E i \in 1..Len(allSchemas) : allSchemas[i].name = refName
    THEN Some(allSchemas[CHOOSE i \in 1..Len(allSchemas) : allSchemas[i].name = refName].def)
    ELSE IF refName \in ObjectPrototypeKeys THEN Some(InheritedMember)
    ELSE None

Contains(list, x) == \E i \in 1..Len(list) : list[i] = x

RefPrefix == "#/components/schemas/"

RECURSIVE AllOfEnum(_, _, _)
\* the enum found by the first n entries of allOf: each entry that resolves
\* to a definition with an enum overwrites what an earlier one found
AllOfEnum(allOf, n, allSchemas) ==
    IF n = 0 THEN None
    ELSE LET ref == allOf[n]
             refSchema == IF TruthyStr(ref)
                          THEN Lookup(allSchemas, RemoveFirst(ref[1], RefPrefix))
                          ELSE None
         IN  IF refSchema # None /\ refSchema[1].enum # None
             THEN refSchema[1].enum
             ELSE AllOfEnum(allOf, n - 1, allSchemas)

\* enum.map(code => ({code, description: code, included: true}))
EnumCodeValues(enum, uid) ==
    [ref |-> ArrRef(uid, "codeValues"),
     items |-> [i \in 1..Len(enum) |->
                  [ref |-> ObjRef(uid, "codeValue", i),
                   code |-> enum[i],
                   description |-> enum[i],
                   included |-> TRUE]]]

RECURSIVE InsertByPosition(_, _)
\* e goes behind every entry whose position is not greater than its own
InsertByPosition(sorted, e) ==
    IF sorted = <<>> \/ sorted[Len(sorted)].position <= e.position
    THEN Append(sorted, e)
    ELSE Append(InsertByPosition(SubSeq(sorted, 1, Len(sorted) - 1), e),
                sorted[Len(sorted)])

\* the elements left in the order they were built
LeftUnsorted(elements, n) == SubSeq(elements, 1, n)

RECURSIVE SortByPosition(_, _)
\* elements.sort((a, b) => a.position - b.position) of the first n elements:
\* the sort is stable
SortByPosition(elements, n) ==
    IF n = 0 THEN <<>>
    ELSE InsertByPosition(SortByPosition(elements, n - 1), elements[n])

\* the properties importOpenAPISegment turns into elements
ElementEntries(schema) ==
    IF schema.properties = None THEN <<>>
    ELSE SelectSeq(PropertyEntries(schema.properties[1]),
                   LAMBDA p : ~StartsWith(p.key, "Model") /\ p.key # "$ref")

\* identifiers generated by importOpenAPISegment: one per element, then its own
SchemaSegmentUuids(schema) == Len(ElementEntries(schema)) + 1

\* the enum allOf finds kept in place of the property's own
PropertyEnumAllOfFirst(prop, allSchemas) ==
    IF prop.allOf # None /\ AllOfEnum(prop.allOf[1], Len(prop.allOf[1]), allSchemas) # None
    THEN AllOfEnum(prop.allOf[1], Len(prop.allOf[1]), allSchemas)
    ELSE prop.enum

\* the enum an element's code values are made of: the one allOf finds,
\* replaced by the property's own enum when it has one
PropertyEnum(prop, allSchemas) ==
    IF prop.enum # None THEN prop.enum
    ELSE IF prop.allOf = None THEN None
    ELSE AllOfEnum(prop.allOf[1], Len(prop.allOf[1]), allSchemas)

\* the element literal of importOpenAPISegment
ElementOf(prop, isElementRequired, enum, uid) ==
    [id |-> uuidv4(uid),
     position |-> getElementPosition(prop.key),
     name |-> Some(parseElementNameFromKey(prop.key)),
     dataType |-> parseDataTypeFromFormat(prop.format),
     minLength |-> OrNum(prop.minLength, Some(0))[1],
     maxLength |-> OrNum(prop.maxLength, Some(0))[1],
     usage |-> IF isElementRequired THEN "M" ELSE "O",
     baseUsage |-> Some(IF isElementRequired THEN "M" ELSE "O"),
     codeValues |-> IF enum = None THEN None ELSE Some(EnumCodeValues(enum[1], uid)),
     baseCodes |-> IF enum = None THEN None
                   ELSE Some(SpreadCopy(EnumCodeValues(enum[1], uid),
                                        ArrRef(uid, "baseCodes")))]

SchemaElement(prop, schema, allSchemas, uid) ==
    ElementOf(prop,
              schema.required # None /\ Contains(schema.required[1], prop.key),
              PropertyEnum(prop, allSchemas), uid)

\* the segment literal of importOpenAPISegment
SegmentOf(segmentId, isRequired, maxUse, elements, uid) ==
    [id |-> uuidv4(uid),
     name |-> Some(segmentId),
     description |-> Some(segmentId),
     usage |-> IF isRequired THEN "M" ELSE "O",
     baseUsage |-> Some(IF isRequired THEN "M" ELSE "O"),
     minUse |-> IF isRequired THEN 1 ELSE 0,
     maxUse |-> maxUse,
     baseMinUse |-> Some(IF isRequired THEN 1 ELSE 0),
     baseMaxUse |-> Some(maxUse),
     elements |-> SortByPosition(elements, Len(elements)),
     order |-> None]

\* the elements built with one identifier generated before the loop
SchemaElementsOneId(propEntries, schema, allSchemas, uid) ==
    [i \in 1..Len(propEntries) |-> SchemaElement(propEntries[i], schema, allSchemas, uid)]

\* the elements built from the property entries, before they are sorted
SchemaElements(propEntries, schema, allSchemas, uid) ==
    [i \in 1..Len(propEntries) |->
       SchemaElement(propEntries[i], schema, allSchemas, uid + i - 1)]

\* importOpenAPISegment with a base usage of Optional whatever the usage
importOpenAPISegmentBaseOptional(segmentId, schema, allSchemas, requiredSegments, maxUse, uid) ==
    [SegmentOf(segmentId, Contains(requiredSegments, segmentId), maxUse,
               SchemaElements(ElementEntries(schema), schema, allSchemas, uid),
               uid + Len(ElementEntries(schema)))
       EXCEPT !.baseUsage = Some("O")]

importOpenAPISegment(segmentId, schema, allSchemas, requiredSegments, maxUse, uid) ==
    SegmentOf(segmentId, Contains(requiredSegments, segmentId), maxUse,
              SchemaElements(ElementEntries(schema), schema, allSchemas, uid),
              uid + Len(ElementEntries(schema)))

Unbounded == 999999

\* the maximum of an array item read as declared, zero included
ItemMaxUseAsDeclared(prop) ==
    IF prop.type = Some("array")
    THEN (IF prop.maxItems = None THEN Unbounded ELSE prop.maxItems[1])
    ELSE 1

ItemMaxUse(prop) ==
    IF prop.type = Some("array") THEN OrNum(prop.maxItems, Some(Unbounded))[1] ELSE 1

\* the schema a property refers to: $ref, or items.$ref of an array
PropertyRefName(prop) ==
    IF TruthyStr(prop.ref) THEN Some(RemoveFirst(prop.ref[1], RefPrefix))
    ELSE IF prop.type = Some("array") /\ TruthyStr(prop.itemsRef)
    THEN Some(RemoveFirst(prop.itemsRef[1], RefPrefix))
    ELSE None

\* allSchemas[refName] when there is a refName
ReferencedSchema(refName, allSchemas) ==
    IF TruthyStr(refName) THEN Lookup(allSchemas, refName[1]) ELSE None

\* the loop over properties after a nested loop was imported, or failed
AfterLoop(st, nested) ==
    IF nested.completion.ok
    THEN [st EXCEPT !.loops = Append(@, nested.completion.value),
                    !.itemOrder = @ + 1,
                    !.uuids = nested.uuids]
    ELSE [st EXCEPT !.error = Some(nested.completion.error),
                    !.uuids = nested.uuids]

\* the imported segment kept in place of the segments built before it
AfterSegmentAlone(st, segment, uuids) ==
    [st EXCEPT !.segments = <<[segment EXCEPT !.order = Some(st.itemOrder)]>>,
               !.itemOrder = @ + 1,
               !.uuids = @ + uuids]

\* the loop over properties after a segment was imported
AfterSegment(st, segment, uuids) ==
    [st EXCEPT !.segments = Append(@, [segment EXCEPT !.order = Some(st.itemOrder)]),
               !.itemOrder = @ + 1,
               !.uuids = @ + uuids]

RECURSIVE importOpenAPILoop(_, _, _, _, _, _, _)
RECURSIVE StructuralProperties(_, _, _, _, _, _)
RECURSIVE StructuralProperty(_, _, _, _, _, _)

\* one turn of the loop over the properties in which a nested loop is
\* required when its own definition's required list names the property
StructuralPropertyOwnRequired(st, prop, refSchema, allSchemas, requiredItems, depth) ==
    IF st.error # None \/ prop.key = "Model" \/ refSchema = None THEN st
    ELSE IF TruthyStr(refSchema[1].loopId)
    THEN AfterLoop(st, importOpenAPILoop(refSchema[1], allSchemas, ItemMaxUse(prop),
                                         Contains(OrEmpty(refSchema[1].required), prop.key),
                                         Some(st.itemOrder), st.uuids, depth + 1))
    ELSE IF TruthyStr(refSchema[1].segId)
    THEN AfterSegment(st,
                      importOpenAPISegment(refSchema[1].segId[1], refSchema[1], allSchemas,
                                           requiredItems, ItemMaxUse(prop), st.uuids),
                      SchemaSegmentUuids(refSchema[1]))
    ELSE [st EXCEPT !.itemOrder = @ + 1]

\* one turn of the loop over the properties of a loop definition or of the
\* transaction set (the same statements in importOpenAPILoop and in
\* importOpenAPIFormat); refSchema is the definition the property refers to.
\* st holds the segments and loops built so far, the next order index, the
\* identifier counter, and the error that ended the loop
StructuralProperty(st, prop, refSchema, allSchemas, requiredItems, depth) ==
    IF st.error # None \/ prop.key = "Model" \/ refSchema = None THEN st
    ELSE IF TruthyStr(refSchema[1].loopId)
    THEN AfterLoop(st, importOpenAPILoop(refSchema[1], allSchemas, ItemMaxUse(prop),
                                         Contains(requiredItems, prop.key),
                                         Some(st.itemOrder), st.uuids, depth + 1))
    ELSE IF TruthyStr(refSchema[1].segId)
    THEN AfterSegment(st,
                      importOpenAPISegment(refSchema[1].segId[1], refSchema[1], allSchemas,
                                           requiredItems, ItemMaxUse(prop), st.uuids),
                      SchemaSegmentUuids(refSchema[1]))
    ELSE [st EXCEPT !.itemOrder = @ + 1]

\* the loop over the first n properties
StructuralProperties(props, n, allSchemas, requiredItems, uid, depth) ==
    IF n = 0
    THEN [segments |-> <<>>, loops |-> <<>>, itemOrder |-> 0, uuids |-> uid, error |-> None]
    ELSE StructuralProperty(
           StructuralProperties(props, n - 1, allSchemas, requiredItems, uid, depth),
           props[n], ReferencedSchema(PropertyRefName(props[n]), allSchemas),
           allSchemas, requiredItems, depth)

\* the loop literal of importOpenAPILoop, from what the loop over the
\* properties built
LoopOf(loopId, st, maxUse, isRequired, order) ==
    IF st.error # None THEN Effect(Throw(st.error[1]), st.uuids, 0)
    ELSE Effect(Return(
           [id |-> uuidv4(st.uuids),
            name |-> loopId,
            description |-> loopId,
            usage |-> IF isRequired THEN "M" ELSE "O",
            baseUsage |-> Some(IF isRequired THEN "M" ELSE "O"),
            minUse |-> IF isRequired THEN 1 ELSE 0,
            maxUse |-> maxUse,
            baseMinUse |-> Some(IF isRequired THEN 1 ELSE 0),
            baseMaxUse |-> Some(maxUse),
            segments |-> st.segments,
            loops |-> st.loops,
            order |-> order]),
           st.uuids + 1, 0)

\* a call nested deeper than the call stack allows ends in a RangeError
importOpenAPILoop(loopSchema, allSchemas, maxUse, isRequired, order, uid, depth) ==
    IF depth > CallStackLimit
    THEN Effect(Throw(JSError("RangeError", "Maximum call stack size exceeded")), uid, 0)
    ELSE LoopOf(OrStr(loopSchema.loopId, Some("LOOP")),
                StructuralProperties(PropertyEntries(OrEmpty(loopSchema.properties)),
                                     Len(OrEmpty(loopSchema.properties)), allSchemas,
                                     OrEmpty(loopSchema.required), uid, depth),
                maxUse, isRequired, order)

\* the index of the first definition with a truthy x-openedi-message-id, 0
\* when there is none
TransactionSetIndex(schemas) ==
    LET at == {i \in 1..Len(schemas) : TruthyStr(schemas[i].def.msgId)}
    IN  IF at = {} THEN 0 ELSE CHOOSE i \in at : \A j \in at : i <= j

\* parsed.components?.schemas || {}
SchemasOf(parsed) ==
    IF Field(parsed, "components") = None THEN <<>>
    ELSE OrEmpty(Field(Field(parsed, "components")[1], "schemas"))

\* the main loop that holds what the transaction set's properties built
MainLoop(transactionSetId, st) ==
    [id |-> uuidv4(st.uuids),
     name |-> Some("TS" \o transactionSetId),
     description |-> Some("Transaction Set " \o transactionSetId),
     usage |-> "M",
     baseUsage |-> Some("M"),
     minUse |-> 1,
     maxUse |-> 1,
     baseMinUse |-> Some(1),
     baseMaxUse |-> Some(1),
     segments |-> st.segments,
     loops |-> st.loops,
     order |-> None]

\* template?.name
TemplateName(template) == IF template = None THEN None ELSE template[1].name

\* the Specification importOpenAPIFormat returns
SchemaSpecification(transactionSetId, templateName, st, now) ==
    IF st.error # None THEN Effect(Throw(st.error[1]), st.uuids, 1)
    ELSE Effect(Return(
      [id |-> uuidv4(st.uuids + 1),
       metadata |->
         [name |-> OrStr(templateName, Some("Transaction Set " \o transactionSetId))[1],
          version |-> "1.0",
          transactionSet |-> Some(transactionSetId),
          transactionSetName |-> OrStr(templateName, Some(transactionSetId)),
          ediVersion |-> "005010",
          createdDate |-> now,
          modifiedDate |-> now,
          baseSpecReference |-> Some("EdiNation/OpenAPI/" \o transactionSetId)],
       loops |-> <<MainLoop(transactionSetId, st)>>,
       examples |-> <<>>]),
      st.uuids + 2, 1)

\* importOpenAPIFormat once the transaction set schema is found
ImportTransactionSet(transactionSetSchema, schemas, now, uid) ==
    SchemaSpecification(
      transactionSetSchema.msgId[1],
      TemplateName(Template(transactionSetSchema.msgId[1])),
      StructuralProperties(PropertyEntries(OrEmpty(transactionSetSchema.properties)),
                           Len(OrEmpty(transactionSetSchema.properties)), schemas,
                           OrEmpty(transactionSetSchema.required), uid, 0),
      now)

\* importOpenAPIFormat on the definitions of the document
ImportSchemas(schemas, now, uid) ==
    IF TransactionSetIndex(schemas) = 0
    THEN Effect(Throw(JSError("Error",
           "No transaction set found in OpenAPI schema (missing x-openedi-message-id)")),
           uid, 1)
    ELSE ImportTransactionSet(schemas[TransactionSetIndex(schemas)].def, schemas, now, uid)

importOpenAPIFormat(parsed, now, uid) ==
    ImportSchemas(SchemaEntries(SchemasOf(parsed)), now, uid)

----------------------------------------------------------------------------
(* Format dispatcher *)

\* JSON.parse: a text is either malformed or the encoding of one value
JSONparse(jsonContent) ==
    IF jsonContent.valid THEN Return(jsonContent.value)
    ELSE Throw(JSError("SyntaxError", "Unexpected token"))

\* throw { isOpenAPI: true, spec: importOpenAPIFormat(parsed) }: what the
\* converter throws is thrown instead
ThrowOpenAPI(converted) ==
    IF converted.completion.ok
    THEN Effect(Throw([isOpenAPI |-> TRUE, spec |-> converted.completion.value]),
                converted.uuids, converted.dateReads)
    ELSE converted

\* parseOpenEDIJson without the test for an empty array: element 0 of an
\* empty array is undefined, which the legacy converter cannot read either
ParsedDocumentUnchecked(parsed, now, uid) ==
    IF isOpenAPIFormat(parsed) THEN ThrowOpenAPI(importOpenAPIFormat(parsed, now, uid))
    ELSE IF parsed.t = "array"
    THEN Effect(Return(IF Len(parsed.items) = 0 THEN JSONNull ELSE parsed.items[1]), uid, 0)
    ELSE Effect(Return(parsed), uid, 0)

\* parseOpenEDIJson returning the last element of an array
ParsedDocumentLast(parsed, now, uid) ==
    IF isOpenAPIFormat(parsed) THEN ThrowOpenAPI(importOpenAPIFormat(parsed, now, uid))
    ELSE IF parsed.t = "array"
    THEN IF Len(parsed.items) = 0
         THEN Effect(Throw(JSError("Error", "Empty specification array")), uid, 0)
         ELSE Effect(Return(parsed.items[Len(parsed.items)]), uid, 0)
    ELSE Effect(Return(parsed), uid, 0)

\* parseOpenEDIJson once the text is parsed
ParsedDocument(parsed, now, uid) ==
    IF isOpenAPIFormat(parsed) THEN ThrowOpenAPI(importOpenAPIFormat(parsed, now, uid))
    ELSE IF parsed.t = "array"
    THEN IF Len(parsed.items) = 0
         THEN Effect(Throw(JSError("Error", "Empty specification array")), uid, 0)
         ELSE Effect(Return(parsed.items[1]), uid, 0)
    ELSE Effect(Return(parsed), uid, 0)

parseOpenEDIJson(jsonContent, now, uid) ==
    IF ~JSONparse(jsonContent).ok THEN Effect(JSONparse(jsonContent), uid, 0)
    ELSE ParsedDocument(JSONparse(jsonContent).value, now, uid)

\* e && e.isOpenAPI && e.spec
IsOpenAPIThrow(e) == "isOpenAPI" \in DOMAIN e /\ e.isOpenAPI /\ "spec" \in DOMAIN e

\* the try block of parseAndImportSpec, after parseOpenEDIJson completed
TryImport(parsing, now) ==
    IF ~parsing.completion.ok THEN parsing
    ELSE importOpenEDISpec(parsing.completion.value, now, parsing.uuids)

\* the catch block of parseAndImportSpec
CatchOpenAPI(tried) ==
    IF tried.completion.ok THEN tried
    ELSE IF IsOpenAPIThrow(tried.completion.error)
    THEN Effect(Return(tried.completion.error.spec), tried.uuids, tried.dateReads)
    ELSE tried

parseAndImportSpec(jsonContent, now, uid) ==
    CatchOpenAPI(TryImport(parseOpenEDIJson(jsonContent, now, uid), now))

\* the Specification createEmptySpecification returns
EmptySpecification(transactionSetId, name, ediVersion, templateName, now, uid) ==
    [id |-> uuidv4(uid),
     metadata |->
       [name |-> OrStr(name, OrStr(templateName,
                    Some("Transaction Set " \o transactionSetId)))[1],
        version |-> "1.0",
        transactionSet |-> Some(transactionSetId),
        transactionSetName |-> OrStr(templateName, Some(transactionSetId)),
        ediVersion |-> ediVersion,
        createdDate |-> now,
        modifiedDate |-> now,
        baseSpecReference |-> None],
     loops |-> <<>>,
     examples |-> <<>>]

\* createEmptySpecification reading the clock again for modifiedDate
createEmptySpecificationTwoReads(transactionSetId, name, ediVersionArg, now, uid) ==
    Effect(Return([EmptySpecification(transactionSetId, name,
                     IF ediVersionArg = None THEN "005010" ELSE ediVersionArg[1],
                     TemplateName(Template(transactionSetId)), now, uid)
                   EXCEPT !.metadata.modifiedDate = now + 1]),
           uid + 1, 2)

createEmptySpecification(transactionSetId, name, ediVersionArg, now, uid) ==
    Effect(Return(EmptySpecification(transactionSetId, name,
                    IF ediVersionArg = None THEN "005010" ELSE ediVersionArg[1],
                    TemplateName(Template(transactionSetId)), now, uid)),
           uid + 1, 1)

----------------------------------------------------------------------------
(* The inputs the calls are made with *)

SeqsUpTo(S, n) == UNION {[1..k -> S] : k \in 0..n}

Distinct(seq) ==
    \A i, j \in 1..Len(seq) : i # j => seq[i] # seq[j]

\* requirement tokens
ReqTokens ==
    {None} \cup {Some(t) : t \in {"M", "m", "O", "o", "C", "c", "X", "x", "", "Z", "MO", "Mandatory"}}

DocReqs == {None, Some("M"), Some("o"), Some("x"), Some("Z")}
DocMaxes == {None, Some(0), Some(1), Some(5)}

CodeST == [Code |-> "ST", Description |-> "Ship To"]
CodeBT == [Code |-> "BT", Description |-> "Bill To"]
CodeLists == {None, Some(<<>>), Some(<<CodeST>>), Some(<<CodeBT, CodeST>>)}

ElementNode(req, codes) ==
    [Id |-> Some("N101"), Name |-> Some("Entity Identifier Code"),
     DataType |-> Some("ID"), MinLength |-> Some(2), MaxLength |-> Some(3),
     Req |-> req, Codes |-> codes]

\* an element node that states nothing
BareElement ==
    [Id |-> None, Name |-> None, DataType |-> None, MinLength |-> None,
     MaxLength |-> None, Req |-> None, Codes |-> None]

ElementNodes ==
    {ElementNode(r, c) : r \in DocReqs, c \in CodeLists} \cup {BareElement}

\* an element numbered 04 by its identifier, and named by nothing else
NumberedElement ==
    [Id |-> Some("N104"), Name |-> None, DataType |-> Some("AN"),
     MinLength |-> Some(1), MaxLength |-> Some(60), Req |-> Some("O"), Codes |-> None]

RepElements ==
    {ElementNode(Some("M"), Some(<<CodeST>>)), ElementNode(Some("c"), None), BareElement,
     NumberedElement}

ElementLists ==
    {None} \cup {Some(<<e>>) : e \in ElementNodes}
           \cup {Some(l) : l \in SeqsUpTo(RepElements, MaxElements)}

RepElementLists ==
    {None, Some(<<>>), Some(<<ElementNode(Some("M"), Some(<<CodeST>>)), BareElement>>)}

SegmentNode(id, name, req, max, elements) ==
    [Id |-> id, Name |-> name, Req |-> req, Max |-> max, Elements |-> elements]

SegmentNodes ==
    {SegmentNode(Some("N1"), Some("Party Identification"), r, m, l) :
        r \in DocReqs, m \in DocMaxes, l \in RepElementLists}
    \cup {SegmentNode(Some("N1"), Some("Party Identification"), Some("M"), Some(1), l) :
            l \in ElementLists}
    \cup {SegmentNode(i, n, Some("O"), Some(1), None) :
            i \in {None, Some("ST")}, n \in {None, Some("")}}

RepSegments ==
    {SegmentNode(Some("ST"), Some("Transaction Set Header"), Some("M"), Some(1),
                 Some(<<ElementNode(Some("M"), Some(<<CodeST>>))>>)),
     SegmentNode(Some("N1"), None, Some("x"), Some(0), None)}

RepSegmentLists == {None, Some(<<>>)} \cup {Some(<<s>>) : s \in RepSegments}

LoopNode(id, name, req, max, segments, loops) ==
    [Id |-> id, Name |-> name, Req |-> req, Max |-> max,
     Segments |-> segments, Loops |-> loops]

RepLoopHeads ==
    {<<Some("M"), Some(5)>>, <<None, None>>, <<Some("x"), Some(0)>>}

RECURSIVE LoopNodes(_)
\* loop nodes nested at most d deep
LoopNodes(d) ==
    IF d = 0 THEN {}
    ELSE {LoopNode(Some("N1_LOOP"), Some("Party"), h[1], h[2], s, l) :
            h \in RepLoopHeads,
            s \in {None, Some(<<SegmentNode(Some("N1"), None, Some("x"), Some(0), None)>>)},
            l \in {None, Some(<<>>)} \cup {Some(<<n>>) : n \in LoopNodes(d - 1)}}

FlatLoops ==
    {LoopNode(i, n, r, m, s, None) :
        i \in {None, Some("LOOP1")}, n \in {None, Some("Loop")},
        r \in DocReqs, m \in DocMaxes, s \in RepSegmentLists}

TwoLoops ==
    {<<LoopNode(Some("LOOP1"), Some("Loop 1"), Some("M"), Some(1), None, None),
       LoopNode(Some("LOOP2"), Some("Loop 2"), r, Some(1), s, None)>> :
        r \in DocReqs, s \in RepSegmentLists}

\* a parsed JSON object, with the keys the importer reads
JSONObject(openapi, components, id, name, version, loops) ==
    [t |-> "object", openapi |-> openapi, components |-> components,
     TransactionSetId |-> id, Name |-> name, Version |-> version, Loops |-> loops]

LegacyDoc(id, name, version, loops) == JSONObject(None, None, id, name, version, loops)

LegacyDocs ==
    {LegacyDoc(i, n, v, l) :
        i \in {None, Some("810")}, n \in {None, Some("Invoice")},
        v \in {None, Some(""), Some("004010")},
        l \in {None, Some(<<>>)}}
    \cup {LegacyDoc(Some("810"), Some("Invoice"), Some("005010"),
                    Some(<<LoopNode(Some("LOOP1"), Some("Loop"), Some("M"), Some(5),
                                    Some(<<s>>), Some(<<>>))>>)) :
            s \in SegmentNodes}
    \cup {LegacyDoc(Some("850"), Some("Purchase Order"), Some("005010"), Some(<<n>>)) :
            n \in LoopNodes(MaxDepth) \cup FlatLoops}
    \cup {LegacyDoc(Some("810"), Some("Invoice"), None, Some(l)) : l \in TwoLoops}

\* a property of a schema definition, with the attributes the importer reads
Prop(key) ==
    [key |-> key, type |-> None, maxItems |-> None, ref |-> None, itemsRef |-> None,
     format |-> None, minLength |-> None, maxLength |-> None, enum |-> None,
     allOf |-> None]

RefTo(name) == RefPrefix \o name

RefProp(key, name) == [Prop(key) EXCEPT !.ref = Some(RefTo(name))]

ArrayProp(key, name, maxItems) ==
    [Prop(key) EXCEPT !.type = Some("array"), !.itemsRef = Some(RefTo(name)),
                      !.maxItems = maxItems]

ElementProp(key, format, minLength, maxLength) ==
    [Prop(key) EXCEPT !.type = Some("string"), !.format = Some(format),
                      !.minLength = Some(minLength), !.maxLength = Some(maxLength)]

\* a schema definition, with the attributes the importer reads: the three
\* x-openedi markers, required, properties and enum
Definition(msgId, loopId, segId, required, properties, enum) ==
    [msgId |-> msgId, loopId |-> loopId, segId |-> segId, required |-> required,
     properties |-> properties, enum |-> enum]

Entry(name, def) == [name |-> name, def |-> def]

DefST ==
    Definition(None, None, Some("ST"), Some(<<"SetIdentifierCode_01">>),
               Some(<<ElementProp("SetIdentifierCode_01", "X12_ID", 3, 3),
                      ElementProp("ControlNumber_02", "X12_AN", 4, 9)>>),
               None)

DefN1 ==
    Definition(None, None, Some("N1"), None,
               Some(<<ElementProp("Name_02", "X12_AN", 1, 60),
                      [Prop("EntityCode_01") EXCEPT
                         !.allOf = Some(<<Some(RefTo("X12_ID_98"))>>)],
                      [Prop("Model") EXCEPT !.type = Some("string")],
                      [Prop("Qualifier") EXCEPT !.enum = Some(<<"ZZ">>)]>>),
               None)

DefEnum == Definition(None, None, None, None, None, Some(<<"ST", "BT">>))

DefEnum66 == Definition(None, None, None, None, None, Some(<<"92">>))

DefN1Loop ==
    Definition(None, Some("N1"), None, Some(<<"N1">>),
               Some(<<[Prop("Model") EXCEPT !.type = Some("string")],
                      RefProp("N1", "N1"),
                      RefProp("PER", "PER"),
                      RefProp("Codes", "X12_ID_98"),
                      ArrayProp("REF", "ST", Some(3))>>),
               None)

DefHLLoop ==
    Definition(None, Some("HL"), None, Some(<<"N1Loop">>),
               Some(<<ArrayProp("N1Loop", "N1Loop", None), RefProp("ST", "ST")>>),
               None)

\* a loop definition that refers to itself
DefCycle ==
    Definition(None, Some("CYC"), None, None,
               Some(<<RefProp("ST", "ST"), ArrayProp("Again", "CycleLoop", None)>>),
               None)

\* a definition with both markers, and one whose loop marker is empty
DefBoth == Definition(None, Some("BOTH"), Some("SE"), None, None, None)
DefSE == Definition(None, Some(""), Some("SE"), None, None, None)

Library ==
    <<Entry("ST", DefST), Entry("N1", DefN1), Entry("X12_ID_98", DefEnum),
      Entry("X12_ID_66", DefEnum66),
      Entry("N1Loop", DefN1Loop), Entry("HLLoop", DefHLLoop),
      Entry("CycleLoop", DefCycle), Entry("Both", DefBoth), Entry("SE", DefSE)>>

RootProps ==
    {RefProp("ST", "ST"),
     RefProp("Header", "ST"),
     ArrayProp("N1Loop", "N1Loop", Some(5)),
     ArrayProp("HLLoop", "HLLoop", None),
     ArrayProp("N1", "N1", Some(0))}

\* properties that build nothing, or not what their key suggests
EdgeProps ==
    {RefProp("Model", "ST"),
     RefProp("Codes", "X12_ID_98"),
     RefProp("Missing", "Nope"),
     RefProp("Inherited", "constructor"),
     RefProp("Cycle", "CycleLoop"),
     RefProp("Both", "Both"),
     RefProp("SE", "SE"),
     RefProp("1", "N1"),
     [Prop("Items") EXCEPT !.itemsRef = Some(RefTo("ST"))],
     [Prop("Plain") EXCEPT !.type = Some("string")]}

\* the properties of a root: up to MaxProps of RootProps in every order, and
\* each of EdgeProps alone, before and after each of RootProps
RootPropLists ==
    {None} \cup {Some(l) : l \in {q \in SeqsUpTo(RootProps, MaxProps) : Distinct(q)}}
    \cup {Some(<<e>>) : e \in EdgeProps}
    \cup {Some(<<e, p>>) : e \in EdgeProps, p \in RootProps}
    \cup {Some(<<p, e>>) : e \in EdgeProps, p \in RootProps}

RootRequired == {None, Some(<<"ST", "N1Loop", "HLLoop", "SE">>), Some(<<"Header", "N1">>)}

Roots ==
    {Definition(Some("810"), None, None, r, l, None) :
        r \in RootRequired, l \in RootPropLists}
    \cup {Definition(Some(m), None, None, r, l, None) :
            m \in {"850", "123"}, r \in {None, Some(<<"ST">>)},
            l \in {None, Some(<<RefProp("ST", "ST")>>)}}

\* definitions that are no transaction set: the marker is absent or empty
NoRoots ==
    {Definition(m, None, None, None, l, None) :
        m \in {None, Some("")}, l \in {None, Some(<<RefProp("ST", "ST")>>)}}

SchemaLists ==
    {<<Entry("X12_005010_810", d)>> \o Library : d \in Roots \cup NoRoots}
    \cup {Library \o <<Entry("X12_005010_810", d)>> :
            d \in {x \in Roots : x.properties = Some(<<RefProp("ST", "ST")>>)}}
    \cup {<<Entry("A", a), Entry("B", b)>> \o Library :
            a \in NoRoots \cup {Definition(Some("810"), None, None, None, None, None)},
            b \in {Definition(Some("850"), None, None, None, Some(<<RefProp("ST", "ST")>>), None)}}
    \cup {<<Entry("X12_005010_810",
                   Definition(Some("810"), None, None, None, None, None)),
             Entry("850", Definition(Some("850"), None, None, None, None, None))>>
            \o Library}
    \cup {<<>>, SubSeq(Library, 1, 3)}

Components(schemas) == [t |-> "object", schemas |-> schemas]

SchemaDocs ==
    {JSONObject(Some("3.0.0"), Some(Components(Some(l))), None, None, None, None) :
        l \in SchemaLists}

\* objects with one marker only, with a null or empty components, or with
\* the keys of both formats
MixedDocs ==
    {JSONObject(o, c, Some("810"), Some("Invoice"), Some("005010"), Some(<<>>)) :
        o \in {None, Some("3.0.0"), Some("")},
        c \in {None, Some(JSONNull), Some(Components(None)),
               Some(Components(Some(<<Entry("X12_005010_810",
                    Definition(Some("810"), None, None, None, None, None))>>)))}}

Primitives ==
    {JSONNull, [t |-> "number", num |-> 0], [t |-> "number", num |-> 5],
     [t |-> "string", str |-> ""], [t |-> "string", str |-> "810"],
     [t |-> "boolean", bool |-> TRUE], [t |-> "boolean", bool |-> FALSE]}

ArrayItems ==
    {JSONNull, [t |-> "number", num |-> 5],
     LegacyDoc(Some("810"), Some("Invoice"), Some("005010"), Some(<<>>)),
     LegacyDoc(Some("850"), Some("Purchase Order"), Some("005010"),
               Some(<<LoopNode(Some("LOOP1"), Some("Loop"), Some("M"), Some(5), None, None)>>)),
     JSONObject(Some("3.0.0"),
                Some(Components(Some(<<Entry("X12_005010_810",
                     Definition(Some("810"), None, None, None, None, None))>>))),
                None, None, None, None)}

Arrays == {[t |-> "array", items |-> l] : l \in SeqsUpTo(ArrayItems, MaxItems)}

JSONValues == Primitives \cup Arrays \cup LegacyDocs \cup SchemaDocs \cup MixedDocs

Text(valid, value) == [valid |-> valid, value |-> value]

Texts == {Text(FALSE, JSONNull)} \cup {Text(TRUE, v) : v \in JSONValues}

CreateArgs ==
    [transactionSetId : {"810", "850", "123", "", "constructor", "__proto__"},
     name : {None, Some("My Custom Invoice"), Some("")},
     ediVersion : {None, Some("004010"), Some("")}]

\* properties of a segment definition: positions out of order, equal, and
\* absent, and the keys importOpenAPISegment passes over
SegmentProps ==
    {ElementProp("Name_02", "X12_AN", 1, 60),
     ElementProp("Code_01", "X12_ID", 2, 3),
     [Prop("Qualifier") EXCEPT !.enum = Some(<<"ZZ">>)],
     [Prop("Type_10") EXCEPT !.allOf = Some(<<Some(RefTo("X12_ID_98"))>>)],
     [Prop("Date_02") EXCEPT !.format = Some("x12_dt")],
     [Prop("Model_03") EXCEPT !.type = Some("string")],
     Prop("$ref")}

\* segment definitions with these properties declared in every order
SegmentSchemas ==
    {Definition(None, None, Some("N1"), r, Some(l), None) :
        r \in {None, Some(<<"Code_01", "Qualifier">>)},
        l \in {q \in SeqsUpTo(SegmentProps, MaxSegmentProps) : Distinct(q)}}
    \cup {Definition(None, None, Some("N1"), None, None, None)}

\* properties with an enum of their own and references in allOf: both, two
\* references to enums, a reference to an enum before one to a segment,
\* references that find no enum, and an enum of no codes; and the property
\* loop levels pass over
CodeProps ==
    {[Prop("Both_01") EXCEPT !.enum = Some(<<"ZZ">>),
                             !.allOf = Some(<<Some(RefTo("X12_ID_98"))>>)],
     [Prop("Two_02") EXCEPT !.allOf = Some(<<Some(RefTo("X12_ID_98")),
                                             Some(RefTo("X12_ID_66"))>>)],
     [Prop("Kept_03") EXCEPT !.allOf = Some(<<Some(RefTo("X12_ID_66")),
                                              Some(RefTo("ST"))>>)],
     [Prop("Bare_04") EXCEPT !.allOf = Some(<<None, Some(RefTo("Nope")),
                                              Some(RefTo("constructor"))>>)],
     [Prop("Empty_05") EXCEPT !.enum = Some(<<>>)],
     [Prop("Model") EXCEPT !.type = Some("string")]}

\* segment definitions with one or two of these properties
CodeSchemas ==
    {Definition(None, None, Some("N1"), None, Some(l), None) :
        l \in {q \in SeqsUpTo(CodeProps, 2) : q # <<>> /\ Distinct(q)}}

\* format tokens: each tag in either case, tokens that hold two tags in
\* either order, a tag inside a longer word, and tokens that hold none
Formats ==
    {None, Some(""), Some("X12_AN"), Some("X12ID"), Some("x12_id"), Some("X12_N0"),
     Some("x12_n2"), Some("X12_R"), Some("x12_r"), Some("X12_DT"), Some("X12_tm"),
     Some("X12_TM_ID"), Some("X12_DT_R"), Some("x12_r_n2"), Some("X12_REF_TM")}

\* segment definitions of one property with such a format
FormatSchemas ==
    {Definition(None, None, Some("N1"), None,
                Some(<<[Prop("Value_01") EXCEPT !.format = f]>>), None) :
        f \in Formats}

\* the arguments of a call of importOpenAPISegment
SegmentArgs ==
    {[schema |-> d,
      requiredSegments |-> IF d.required = None THEN <<>> ELSE <<"ST", "N1">>,
      maxUse |-> IF d.required = None THEN 1 ELSE 5] :
        d \in SegmentSchemas \cup CodeSchemas \cup FormatSchemas}

Inputs ==
    {[kind |-> "token", req |-> r] : r \in ReqTokens}
    \cup {[kind |-> "document", doc |-> d] : d \in LegacyDocs}
    \cup {[kind |-> "text", text |-> x] : x \in Texts}
    \cup {[kind |-> "create", args |-> a] : a \in CreateArgs}
    \cup {[kind |-> "segment", args |-> a] : a \in SegmentArgs}

----------------------------------------------------------------------------
(* The calls *)

Init ==
    /\ input \in Inputs
    /\ outcome = Return(None)
    /\ op = "none"
    /\ clock = 0
    /\ dateReads = 0
    /\ uuidCount = 0
    /\ specification = None
    /\ edits = 0

\* the state a call leaves: the clock shows now when the call read it
Called(name, effect, now) ==
    /\ op' = name
    /\ outcome' = effect.completion
    /\ uuidCount' = effect.uuids
    /\ dateReads' = effect.dateReads
    /\ clock' = IF effect.dateReads > 0 THEN now ELSE clock
    /\ UNCHANGED <<input, specification, edits>>

CallParseUsage ==
    /\ input.kind = "token"
    /\ Called("parseUsage", Effect(Return(parseUsage(input.req)), uuidCount, 0), clock)

CallImportOpenEDISpec ==
    /\ input.kind = "document"
    /\ uuidCount <= MaxUuid
    /\ \E now \in clock..MaxClock :
         Called("importOpenEDISpec", importOpenEDISpec(input.doc, now, uuidCount), now)

CallParseOpenEDIJson ==
    /\ input.kind = "text"
    /\ uuidCount <= MaxUuid
    /\ \E now \in clock..MaxClock :
         Called("parseOpenEDIJson", parseOpenEDIJson(input.text, now, uuidCount), now)

CallParseAndImportSpec ==
    /\ input.kind = "text"
    /\ uuidCount <= MaxUuid
    /\ \E now \in clock..MaxClock :
         Called("parseAndImportSpec", parseAndImportSpec(input.text, now, uuidCount), now)

CallCreateEmptySpecification ==
    /\ input.kind = "create"
    /\ uuidCount <= MaxUuid
    /\ \E now \in clock..MaxClock :
         Called("createEmptySpecification",
                createEmptySpecification(input.args.transactionSetId, input.args.name,
                                         input.args.ediVersion, now, uuidCount),
                now)

\* a segment definition converted alone, as the converters of the loop and
\* of the transaction set call it, with the document's definitions at hand
CallImportOpenAPISegment ==
    /\ input.kind = "segment"
    /\ uuidCount <= MaxUuid
    /\ Called("importOpenAPISegment",
              Effect(Return(importOpenAPISegment(input.args.schema.segId[1],
                                                 input.args.schema, Library,
                                                 input.args.requiredSegments,
                                                 input.args.maxUse, uuidCount)),
                     uuidCount + SchemaSegmentUuids(input.args.schema), 0),
              clock)

Next ==
    \/ CallParseUsage
    \/ CallImportOpenEDISpec
    \/ CallParseOpenEDIJson
    \/ CallParseAndImportSpec
    \/ CallCreateEmptySpecification
    \/ CallImportOpenAPISegment

Spec == Init /\ [][Next]_vars

----------------------------------------------------------------------------
(* The editors *)

\* {...entity, ...updates} writing a new usage to baseUsage as well
MergeOverBase(entity, updates) ==
    [f \in DOMAIN entity \cup DOMAIN updates |->
       IF f = "baseUsage" /\ "usage" \in DOMAIN updates THEN Some(updates.usage)
       ELSE IF f \in DOMAIN updates THEN updates[f] ELSE entity[f]]

\* {...entity, ...updates}
Merge(entity, updates) ==
    [f \in DOMAIN entity \cup DOMAIN updates |->
       IF f \in DOMAIN updates THEN updates[f] ELSE entity[f]]

\* targetPath[depth], undefined past the end of the path
PathAt(targetPath, depth) ==
    IF depth <= Len(targetPath) THEN Some(targetPath[depth]) ELSE None

\* array.filter(x => x.id !== id)
WithoutId(array, id) ==
    LET Other(x) == x.id # id IN SelectSeq(array, Other)

\* the array after splice(sourceIndex, 1) and splice(targetIndex, 0, removed)
Moved(array, sourceIndex, targetIndex) ==
    LET rest == SubSeq(array, 1, sourceIndex - 1) \o SubSeq(array, sourceIndex + 1, Len(array))
    IN  SubSeq(rest, 1, targetIndex - 1) \o <<array[sourceIndex]>>
        \o SubSeq(rest, targetIndex, Len(rest))

RECURSIVE updateInLoops(_, _, _, _)
\* SegmentEditor.updateSegment: the loops with the updates merged into the
\* segment targetPath ends at
updateInLoops(loops, targetPath, depth, updates) ==
    [i \in 1..Len(loops) |->
       IF Some(loops[i].id) # PathAt(targetPath, depth) THEN loops[i]
       ELSE IF depth = Len(targetPath) - 1
       THEN [loops[i] EXCEPT !.segments =
               [j \in 1..Len(loops[i].segments) |->
                  IF Some(loops[i].segments[j].id) = PathAt(targetPath, depth + 1)
                  THEN Merge(loops[i].segments[j], updates)
                  ELSE loops[i].segments[j]]]
       ELSE [loops[i] EXCEPT !.loops =
               updateInLoops(loops[i].loops, targetPath, depth + 1, updates)]]

RECURSIVE deleteSegmentFromLoops(_, _, _)
\* SegmentEditor.handleDeleteSegment: the loops without the segment
deleteSegmentFromLoops(loops, targetPath, depth) ==
    [i \in 1..Len(loops) |->
       IF Some(loops[i].id) # PathAt(targetPath, depth) THEN loops[i]
       ELSE IF depth = Len(targetPath) - 1
       THEN [loops[i] EXCEPT !.segments = WithoutId(loops[i].segments, targetPath[depth + 1])]
       ELSE [loops[i] EXCEPT !.loops =
               deleteSegmentFromLoops(loops[i].loops, targetPath, depth + 1)]]

RECURSIVE updateLoopInTree(_, _, _, _)
\* LoopEditor.updateLoop: the loops with the updates merged into the loop
\* targetPath ends at
updateLoopInTree(loops, targetPath, depth, updates) ==
    [i \in 1..Len(loops) |->
       IF Some(loops[i].id) # PathAt(targetPath, depth) THEN loops[i]
       ELSE IF depth = Len(targetPath) THEN Merge(loops[i], updates)
       ELSE [loops[i] EXCEPT !.loops =
               updateLoopInTree(loops[i].loops, targetPath, depth + 1, updates)]]

RECURSIVE deleteFromLoops(_, _, _)
\* LoopEditor.handleDeleteLoop: the loops without the loop targetPath ends at
deleteFromLoops(loops, targetPath, depth) ==
    IF depth = Len(targetPath) THEN WithoutId(loops, targetPath[depth])
    ELSE [i \in 1..Len(loops) |->
            IF Some(loops[i].id) = PathAt(targetPath, depth)
            THEN [loops[i] EXCEPT !.loops =
                    deleteFromLoops(loops[i].loops, targetPath, depth + 1)]
            ELSE loops[i]]

RECURSIVE LoopPaths(_, _)
\* currentPath of every LoopTreeItem: the ids of the loops down to it
LoopPaths(loops, parentPath) ==
    UNION {{Append(parentPath, loops[i].id)}
             \cup LoopPaths(loops[i].loops, Append(parentPath, loops[i].id)) :
           i \in 1..Len(loops)}

RECURSIVE LoopAt(_, _, _)
\* the loop prop of the LoopEditor opened at a path
LoopAt(loops, path, depth) ==
    LET loop == loops[CHOOSE i \in 1..Len(loops) : loops[i].id = path[depth]]
    IN  IF depth = Len(path) THEN loop ELSE LoopAt(loop.loops, path, depth + 1)

\* the path prop of every SegmentEditor: the loop's path, then the segment
SegmentPaths(loops) ==
    UNION {{Append(path, LoopAt(loops, path, 1).segments[j].id) :
              j \in 1..Len(LoopAt(loops, path, 1).segments)} :
           path \in LoopPaths(loops, <<>>)}

\* the segment prop of the SegmentEditor opened at a path
SegmentAt(loops, path) ==
    LET segments == LoopAt(loops, SubSeq(path, 1, Len(path) - 1), 1).segments
    IN  segments[CHOOSE j \in 1..Len(segments) : segments[j].id = path[Len(path)]]

\* Math.max(...numbers)
Max(numbers) == CHOOSE n \in numbers : \A m \in numbers : m <= n

\* the element handleAddElement appends
NewElement(elements, uid) ==
    [id |-> uuidv4(uid),
     position |-> IF Len(elements) > 0
                  THEN Max({elements[i].position : i \in 1..Len(elements)}) + 1
                  ELSE 1,
     name |-> Some("New Element"),
     dataType |-> "AN",
     minLength |-> 1,
     maxLength |-> 50,
     usage |-> "O"]

\* the segment LoopEditor.handleAddSegment appends
NewSegment(uid) ==
    [id |-> uuidv4(uid), name |-> Some("SEG"), description |-> Some("New Segment"),
     usage |-> "O", minUse |-> 0, maxUse |-> 1, elements |-> <<>>]

\* the loop handleAddNestedLoop and handleAddLoop append
NewLoop(uid, name, description) ==
    [id |-> uuidv4(uid), name |-> Some(name), description |-> Some(description),
     usage |-> "O", minUse |-> 0, maxUse |-> 1, segments |-> <<>>, loops |-> <<>>]

\* what the form fields of the segment and loop editors pass to updateSegment
\* and updateLoop: one field each
FieldUpdates ==
    <<[name |-> Some("REF")], [description |-> Some("Edited")],
      [usage |-> "M"], [usage |-> "C"], [minUse |-> 1], [maxUse |-> 5],
      [comments |-> Some("Edited")]>>

\* what the fields of an ElementRow pass to handleUpdateElement
ElementUpdates ==
    <<[position |-> 3], [name |-> Some("Edited")], [dataType |-> "N0"],
      [minLength |-> 2], [maxLength |-> 9], [usage |-> "M"]>>

\* onUpdate(spec => ({...spec, loops})), having generated uuids identifiers
Updated(loops, uuids) ==
    /\ specification' = Some([specification[1] EXCEPT !.loops = loops])
    /\ edits' = edits + 1
    /\ uuidCount' = uuidCount + uuids
    /\ UNCHANGED <<input, outcome, op, clock, dateReads>>

\* an editor is open on a Specification
Editing == specification # None /\ edits < MaxEdits

\* a form field of the SegmentEditor changes
ChangeSegment ==
    /\ Editing
    /\ \E path \in SegmentPaths(specification[1].loops), k \in 1..Len(FieldUpdates) :
         Updated(updateInLoops(specification[1].loops, path, 1, FieldUpdates[k]), 0)

handleAddElement ==
    /\ Editing
    /\ \E path \in SegmentPaths(specification[1].loops) :
         LET segment == SegmentAt(specification[1].loops, path)
         IN  Updated(updateInLoops(specification[1].loops, path, 1,
                       [elements |-> Append(segment.elements,
                                            NewElement(segment.elements, uuidCount))]),
                     1)

handleUpdateElement ==
    /\ Editing
    /\ \E path \in SegmentPaths(specification[1].loops), k \in 1..Len(ElementUpdates) :
         LET segment == SegmentAt(specification[1].loops, path)
         IN  \E n \in 1..Len(segment.elements) :
               Updated(updateInLoops(specification[1].loops, path, 1,
                         [elements |->
                            [i \in 1..Len(segment.elements) |->
                               IF segment.elements[i].id = segment.elements[n].id
                               THEN Merge(segment.elements[i], ElementUpdates[k])
                               ELSE segment.elements[i]]]),
                       0)

handleDeleteElement ==
    /\ Editing
    /\ \E path \in SegmentPaths(specification[1].loops) :
         LET segment == SegmentAt(specification[1].loops, path)
         IN  \E n \in 1..Len(segment.elements) :
               Updated(updateInLoops(specification[1].loops, path, 1,
                         [elements |-> WithoutId(segment.elements, segment.elements[n].id)]),
                       0)

\* SegmentEditor.handleDeleteSegment, confirmed
DeleteOpenSegment ==
    /\ Editing
    /\ \E path \in SegmentPaths(specification[1].loops) :
         Updated(deleteSegmentFromLoops(specification[1].loops, path, 1), 0)

\* SegmentEditor.handleDrop: the row dragged is dropped on another row
DropElement ==
    /\ Editing
    /\ \E path \in SegmentPaths(specification[1].loops) :
         LET segment == SegmentAt(specification[1].loops, path)
         IN  \E sourceIndex, targetIndex \in 1..Len(segment.elements) :
               /\ sourceIndex # targetIndex
               /\ Updated(updateInLoops(specification[1].loops, path, 1,
                            [elements |-> Moved(segment.elements, sourceIndex, targetIndex)]),
                          0)

\* a form field of the LoopEditor changes
ChangeLoop ==
    /\ Editing
    /\ \E path \in LoopPaths(specification[1].loops, <<>>), k \in 1..Len(FieldUpdates) :
         Updated(updateLoopInTree(specification[1].loops, path, 1, FieldUpdates[k]), 0)

handleAddSegment ==
    /\ Editing
    /\ \E path \in LoopPaths(specification[1].loops, <<>>) :
         Updated(updateLoopInTree(specification[1].loops, path, 1,
                   [segments |-> Append(LoopAt(specification[1].loops, path, 1).segments,
                                        NewSegment(uuidCount))]),
                 1)

handleAddNestedLoop ==
    /\ Editing
    /\ \E path \in LoopPaths(specification[1].loops, <<>>) :
         Updated(updateLoopInTree(specification[1].loops, path, 1,
                   [loops |-> Append(LoopAt(specification[1].loops, path, 1).loops,
                                     NewLoop(uuidCount, "LOOP", "New Nested Loop"))]),
                 1)

\* LoopEditor.handleDeleteLoop, confirmed
handleDeleteLoop ==
    /\ Editing
    /\ \E path \in LoopPaths(specification[1].loops, <<>>) :
         Updated(deleteFromLoops(specification[1].loops, path, 1), 0)

\* LoopEditor.handleDeleteSegment, confirmed
handleDeleteSegment ==
    /\ Editing
    /\ \E path \in LoopPaths(specification[1].loops, <<>>) :
         LET loop == LoopAt(specification[1].loops, path, 1)
         IN  \E n \in 1..Len(loop.segments) :
               Updated(updateLoopInTree(specification[1].loops, path, 1,
                         [segments |-> WithoutId(loop.segments, loop.segments[n].id)]),
                       0)

\* LoopEditor.handleDeleteNestedLoop, confirmed
handleDeleteNestedLoop ==
    /\ Editing
    /\ \E path \in LoopPaths(specification[1].loops, <<>>) :
         LET loop == LoopAt(specification[1].loops, path, 1)
         IN  \E n \in 1..Len(loop.loops) :
               Updated(updateLoopInTree(specification[1].loops, path, 1,
                         [loops |-> WithoutId(loop.loops, loop.loops[n].id)]),
                       0)

\* LoopEditor.handleDrop: a segment row is dropped on a segment row, a loop
\* row on a loop row
handleDrop ==
    /\ Editing
    /\ \E path \in LoopPaths(specification[1].loops, <<>>) :
         LET loop == LoopAt(specification[1].loops, path, 1)
         IN  \/ \E sourceIndex, targetIndex \in 1..Len(loop.segments) :
                  /\ sourceIndex # targetIndex
                  /\ Updated(updateLoopInTree(specification[1].loops, path, 1,
                               [segments |-> Moved(loop.segments, sourceIndex, targetIndex)]),
                             0)
             \/ \E sourceIndex, targetIndex \in 1..Len(loop.loops) :
                  /\ sourceIndex # targetIndex
                  /\ Updated(updateLoopInTree(specification[1].loops, path, 1,
                               [loops |-> Moved(loop.loops, sourceIndex, targetIndex)]),
                             0)

\* TreeNavigation.handleAddLoop
handleAddLoop ==
    /\ Editing
    /\ Updated(Append(specification[1].loops, NewLoop(uuidCount, "NEW", "New Loop")), 1)

\* the documents whose import the editors open
EditorSegments ==
    <<SegmentNode(Some("ST"), Some("Transaction Set Header"), Some("M"), Some(1),
                  Some(<<ElementNode(Some("M"), Some(<<CodeST>>)),
                         ElementNode(Some("O"), None)>>)),
      SegmentNode(Some("N1"), None, Some("x"), Some(0), None)>>

EditorLoops ==
    <<LoopNode(Some("LOOP1"), Some("Loop 1"), Some("M"), Some(5), Some(EditorSegments),
               Some(<<LoopNode(Some("LOOP2"), Some("Loop 2"), Some("O"), Some(1),
                               Some(<<EditorSegments[2]>>), None)>>)),
      LoopNode(Some("LOOP3"), Some("Loop 3"), Some("c"), None, None, None)>>

EditorSchemas ==
    <<Entry("X12_005010_810",
            Definition(Some("810"), None, None, Some(<<"ST">>),
                       Some(<<RefProp("ST", "ST"), ArrayProp("N1Loop", "N1Loop", Some(5))>>),
                       None))>> \o Library

EditorInputs ==
    {[kind |-> "document",
      doc |-> LegacyDoc(Some("810"), Some("Invoice"), Some("005010"), Some(EditorLoops))],
     [kind |-> "text",
      text |-> Text(TRUE, JSONObject(Some("3.0.0"), Some(Components(Some(EditorSchemas))),
                                      None, None, None, None))]}

\* the import the editors' Specification comes from
EditorImport(in) ==
    IF in.kind = "document"
    THEN [op |-> "importOpenEDISpec", effect |-> importOpenEDISpec(in.doc, 0, 0)]
    ELSE [op |-> "parseAndImportSpec", effect |-> parseAndImportSpec(in.text, 0, 0)]

\* the editors are mounted on the Specification an import returned
EditorInit ==
    /\ input \in EditorInputs
    /\ op = EditorImport(input).op
    /\ outcome = EditorImport(input).effect.completion
    /\ uuidCount = EditorImport(input).effect.uuids
    /\ dateReads = EditorImport(input).effect.dateReads
    /\ clock = 0
    /\ specification = Some(EditorImport(input).effect.completion.value)
    /\ edits = 0

EditorNext ==
    \/ ChangeSegment
    \/ handleAddElement
    \/ handleUpdateElement
    \/ handleDeleteElement
    \/ DeleteOpenSegment
    \/ DropElement
    \/ ChangeLoop
    \/ handleAddSegment
    \/ handleAddNestedLoop
    \/ handleDeleteLoop
    \/ handleDeleteSegment
    \/ handleDeleteNestedLoop
    \/ handleDrop
    \/ handleAddLoop

EditorSpec == EditorInit /\ [][EditorNext]_vars

----------------------------------------------------------------------------
(* Properties *)

\* the text of the call parsed to a JSON value
Parsed == input.text.value

\* the parsed value has an 'openapi' key and a 'components' key
BothKeys(v) == v.t = "object" /\ v.openapi # None /\ v.components # None

\* the loops, segments and elements of a Specification, at every depth
RECURSIVE LoopsIn(_)
LoopsIn(loops) ==
    {loops[i] : i \in 1..Len(loops)}
    \cup UNION {LoopsIn(loops[i].loops) : i \in 1..Len(loops)}

SegmentsIn(loops) ==
    UNION {{l.segments[i] : i \in 1..Len(l.segments)} : l \in LoopsIn(loops)}

ElementsIn(loops) ==
    UNION {{s.elements[i] : i \in 1..Len(s.elements)} : s \in SegmentsIn(loops)}

\* an import completed with a Specification
Imported == op \in {"importOpenEDISpec", "parseAndImportSpec"} /\ outcome.ok

\* C1: parseUsage returns, and never raises: Mandatory for M, Optional for O,
\* Conditional for C and for X, whatever the case of the token, and Optional
\* for every other token, an absent and an empty one included.
ParseUsageMapping ==
    op = "parseUsage" =>
      /\ outcome.ok
      /\ outcome.value =
           CASE input.req \in {Some("M"), Some("m")} -> "M"
             [] input.req \in {Some("O"), Some("o")} -> "O"
             [] input.req \in {Some("C"), Some("c"), Some("X"), Some("x")} -> "C"
             [] OTHER -> "O"

ParseUsageLowerX ==
    op = "parseUsage" /\ input.req = Some("x") /\ outcome = Return("C")

\* C2: parseAndImportSpec completes as the schema converter does on the parsed
\* document when that document has an 'openapi' key and a 'components' key,
\* and otherwise as importOpenEDISpec does on the document parsing yields (an
\* empty array yields none).
RoutesByFormat ==
    [][(op' = "parseAndImportSpec" /\ input.text.valid) =>
         IF BothKeys(Parsed)
         THEN outcome' = importOpenAPIFormat(Parsed, clock', uuidCount).completion
         ELSE IF Parsed.t = "array"
         THEN Parsed.items = <<>> \/
              outcome' = importOpenEDISpec(Parsed.items[1], clock', uuidCount).completion
         ELSE outcome' = importOpenEDISpec(Parsed, clock', uuidCount).completion]_vars

SchemaDocumentRouted ==
    /\ op = "parseAndImportSpec"
    /\ input.text.valid
    /\ BothKeys(Parsed)
    /\ outcome.ok
    /\ outcome.value.metadata.baseSpecReference = Some("EdiNation/OpenAPI/810")

\* C3: when the text parses to an empty array, parseOpenEDIJson and
\* parseAndImportSpec both fail with 'Empty specification array'.
EmptyArrayFails ==
    (/\ op \in {"parseOpenEDIJson", "parseAndImportSpec"}
     /\ input.text.valid
     /\ Parsed.t = "array"
     /\ Len(Parsed.items) = 0)
    => outcome = Throw(JSError("Error", "Empty specification array"))

EmptyArrayImported ==
    /\ op = "parseAndImportSpec"
    /\ input.text = Text(TRUE, [t |-> "array", items |-> <<>>])
    /\ ~outcome.ok

\* C4: when the text parses to a non-empty array, parseOpenEDIJson returns
\* its element 0 and parseAndImportSpec completes as importOpenEDISpec does on
\* element 0: no later element has a part in the result.
FirstElementOnly ==
    [][(/\ op' \in {"parseOpenEDIJson", "parseAndImportSpec"}
        /\ input.text.valid
        /\ Parsed.t = "array"
        /\ Len(Parsed.items) > 0)
       => outcome' =
            IF op' = "parseOpenEDIJson" THEN Return(Parsed.items[1])
            ELSE importOpenEDISpec(Parsed.items[1], clock', uuidCount).completion]_vars

TwoElementArrayImported ==
    /\ op = "parseAndImportSpec"
    /\ input.text.valid
    /\ Parsed.t = "array"
    /\ Len(Parsed.items) = 2
    /\ Field(Parsed.items[1], "TransactionSetId") = Some("810")
    /\ Field(Parsed.items[2], "TransactionSetId") = Some("850")
    /\ outcome.ok
    /\ outcome.value.metadata.transactionSet = Some("810")

\* the definitions of a schema-format document that carry the
\* x-openedi-message-id marker, by their place in components.schemas
Marked(v) == {i \in 1..Len(SchemasOf(v)) : SchemasOf(v)[i].def.msgId # None}

\* C5: the import of a schema-format document fails with 'No transaction set
\* found' exactly when no definition carries the x-openedi-message-id marker,
\* and otherwise returns a Specification whose metadata.transactionSet is the
\* marker's value.
TransactionSetFoundIffMarked ==
    (op = "parseAndImportSpec" /\ input.text.valid /\ BothKeys(Parsed)) =>
      IF Marked(Parsed) = {}
      THEN outcome = Throw(JSError("Error",
             "No transaction set found in OpenAPI schema (missing x-openedi-message-id)"))
      ELSE /\ outcome.ok
           /\ \E i \in Marked(Parsed) :
                outcome.value.metadata.transactionSet = SchemasOf(Parsed)[i].def.msgId

\* C6: parseAndImportSpec fails only when the text is not valid JSON, when it
\* parses to an empty array, or when it is a schema-format document without a
\* message-id root; on every other text it returns a Specification.
FailsOnlyStructurally ==
    op = "parseAndImportSpec" =>
      (~outcome.ok <=>
         \/ ~input.text.valid
         \/ Parsed.t = "array" /\ Len(Parsed.items) = 0
         \/ BothKeys(Parsed) /\ Marked(Parsed) = {})

\* C7: after an import of either format every loop, segment and element of
\* the result, the synthetic top-level loop included, has baseUsage equal to
\* usage, and every loop and segment has baseMinUse equal to minUse and
\* baseMaxUse equal to maxUse.
BaseSnapshotEqualsCurrent ==
    Imported =>
      /\ \A n \in LoopsIn(outcome.value.loops) \cup SegmentsIn(outcome.value.loops) :
           /\ n.baseUsage = Some(n.usage)
           /\ n.baseMinUse = Some(n.minUse)
           /\ n.baseMaxUse = Some(n.maxUse)
      /\ \A e \in ElementsIn(outcome.value.loops) : e.baseUsage = Some(e.usage)

SchemaTreeImported ==
    /\ op = "parseAndImportSpec"
    /\ input.text.valid
    /\ BothKeys(Parsed)
    /\ outcome.ok
    /\ \E l \in LoopsIn(outcome.value.loops) : l.order # None /\ l.usage = "M"
    /\ \E g \in SegmentsIn(outcome.value.loops) : g.usage = "M" /\ g.maxUse > 1
    /\ \E e \in ElementsIn(outcome.value.loops) : e.usage = "M"

\* the elements of a legacy document paired with the elements converted from
\* them: the converted tree has the shape of the document's
ConvertedElements(segs, outs) ==
    UNION {{<<OrEmpty(segs[i].Elements)[j], outs[i].elements[j]>> :
              j \in 1..Len(OrEmpty(segs[i].Elements))} : i \in 1..Len(segs)}

RECURSIVE ConvertedPairs(_, _)
ConvertedPairs(loops, outs) ==
    UNION {ConvertedElements(OrEmpty(loops[i].Segments), outs[i].segments)
             \cup ConvertedPairs(OrEmpty(loops[i].Loops), outs[i].loops) :
           i \in 1..Len(loops)}

\* C8: for every element the legacy converter produces, when the source code
\* list is non-empty baseCodes is another list than codeValues, holding the
\* same codes, descriptions and included flags in the same order; when the
\* source list is empty or absent, codeValues and baseCodes are both omitted.
BaseCodesCopied ==
    (op = "importOpenEDISpec" /\ outcome.ok) =>
      \A pair \in ConvertedPairs(OrEmpty(Field(input.doc, "Loops")), outcome.value.loops) :
        LET codes == OrEmpty(pair[1].Codes)
            e == pair[2]
        IN  IF Len(codes) > 0
            THEN /\ e.codeValues # None /\ e.baseCodes # None
                 /\ e.baseCodes[1].ref # e.codeValues[1].ref
                 /\ Len(e.baseCodes[1].items) = Len(e.codeValues[1].items)
                 /\ \A i \in 1..Len(e.codeValues[1].items) :
                      /\ e.baseCodes[1].items[i].code = e.codeValues[1].items[i].code
                      /\ e.baseCodes[1].items[i].description
                           = e.codeValues[1].items[i].description
                      /\ e.baseCodes[1].items[i].included
                           = e.codeValues[1].items[i].included
            ELSE e.codeValues = None /\ e.baseCodes = None

CodedAndUncodedElementsConverted ==
    /\ op = "importOpenEDISpec"
    /\ outcome.ok
    /\ \E pair \in ConvertedPairs(OrEmpty(Field(input.doc, "Loops")), outcome.value.loops) :
         pair[1].Codes = Some(<<CodeST>>) /\ Len(pair[2].baseCodes[1].items) = 1
    /\ \E pair \in ConvertedPairs(OrEmpty(Field(input.doc, "Loops")), outcome.value.loops) :
         pair[1].Codes = None /\ pair[2].baseCodes = None

\* C9: after an import of either format every segment and loop whose usage is
\* Mandatory has minUse 1, and every one whose usage is Optional or
\* Conditional has minUse 0.
MinUseFollowsUsage ==
    Imported =>
      \A n \in LoopsIn(outcome.value.loops) \cup SegmentsIn(outcome.value.loops) :
        /\ n.usage = "M" => n.minUse = 1
        /\ n.usage \in {"O", "C"} => n.minUse = 0

ConditionalSegmentImported ==
    /\ Imported
    /\ \E g \in SegmentsIn(outcome.value.loops) : g.usage = "C" /\ g.minUse = 0
    /\ \E l \in LoopsIn(outcome.value.loops) : l.usage = "M" /\ l.minUse = 1

\* C10: every Specification returned by importOpenEDISpec, by the schema
\* converter and by createEmptySpecification has createdDate equal to
\* modifiedDate, both the one timestamp the call read.
OneTimestamp ==
    (op \in {"importOpenEDISpec", "parseAndImportSpec", "createEmptySpecification"}
       /\ outcome.ok) =>
      /\ outcome.value.metadata.createdDate = outcome.value.metadata.modifiedDate
      /\ outcome.value.metadata.createdDate = clock
      /\ dateReads = 1

CreatedLater ==
    /\ op = "createEmptySpecification"
    /\ outcome.ok
    /\ clock = MaxClock
    /\ outcome.value.metadata.createdDate = MaxClock
    /\ outcome.value.metadata.modifiedDate = MaxClock

\* the sequences of a sequence, one after the other
RECURSIVE Concat(_)
Concat(seqs) == IF seqs = <<>> THEN <<>> ELSE seqs[1] \o Concat(Tail(seqs))

\* the identifiers of a segment and its elements, one per entity
IdsOfSegment(seg) == <<seg.id>> \o [i \in 1..Len(seg.elements) |-> seg.elements[i].id]

RECURSIVE IdsOfLoop(_)
IdsOfLoop(loop) ==
    <<loop.id>>
    \o Concat([i \in 1..Len(loop.segments) |-> IdsOfSegment(loop.segments[i])])
    \o Concat([i \in 1..Len(loop.loops) |-> IdsOfLoop(loop.loops[i])])

\* the identifiers of a Specification and of every entity in it
IdsOfSpecification(spec) ==
    <<spec.id>> \o Concat([i \in 1..Len(spec.loops) |-> IdsOfLoop(spec.loops[i])])

\* C11: with a generator that never returns a value twice, the Specification
\* an import returns and every loop, segment and element in it has an
\* identifier the generator produced, and no two of them have the same one.
IdentifiersDistinct ==
    Imported =>
      /\ Distinct(IdsOfSpecification(outcome.value))
      /\ \A i \in 1..Len(IdsOfSpecification(outcome.value)) :
           IdsOfSpecification(outcome.value)[i] \in 0..(uuidCount - 1)

ManyEntitiesImported ==
    /\ Imported
    /\ Len(IdsOfSpecification(outcome.value)) >= 8
    /\ Cardinality(ElementsIn(outcome.value.loops)) >= 2

\* how many times e occurs in seq
Occurrences(seq, e) == Cardinality({i \in 1..Len(seq) : seq[i] = e})

\* C12: whatever the order in which a segment definition declares its
\* properties, the elements of the converted segment are a permutation of the
\* elements built from those properties, and their positions never decrease.
ElementsSortedPermutation ==
    [][op' = "importOpenAPISegment" =>
         LET built == SchemaElements(ElementEntries(input.args.schema), input.args.schema,
                                     Library, uuidCount)
             sorted == outcome'.value.elements
         IN  /\ Len(sorted) = Len(built)
             /\ \A i \in 1..Len(built) :
                  Occurrences(sorted, built[i]) = Occurrences(built, built[i])
             /\ \A i \in 1..(Len(sorted) - 1) :
                  sorted[i].position <= sorted[i + 1].position]_vars

OutOfOrderSegmentConverted ==
    /\ op = "importOpenAPISegment"
    /\ Len(ElementEntries(input.args.schema)) = 3
    /\ getElementPosition(ElementEntries(input.args.schema)[1].key) = 10
    /\ getElementPosition(ElementEntries(input.args.schema)[2].key) = 2
    /\ getElementPosition(ElementEntries(input.args.schema)[3].key) = 1
    /\ outcome.value.elements[1].position = 1
    /\ outcome.value.elements[3].position = 10

\* a schema-format document was imported
SchemaImported ==
    op = "parseAndImportSpec" /\ input.text.valid /\ BothKeys(Parsed) /\ outcome.ok

\* the definitions of the imported document and its transaction-set root
DocumentSchemas == SchemaEntries(SchemasOf(Parsed))
Root == DocumentSchemas[TransactionSetIndex(DocumentSchemas)].def

\* the definition a property refers to is a loop or a segment definition
IsStructural(p) ==
    /\ p.key # "Model"
    /\ ReferencedSchema(PropertyRefName(p), DocumentSchemas) # None
    /\ \/ TruthyStr(ReferencedSchema(PropertyRefName(p), DocumentSchemas)[1].loopId)
       \/ TruthyStr(ReferencedSchema(PropertyRefName(p), DocumentSchemas)[1].segId)

\* the child a structural property stands for: a loop or a segment, by name
ChildOf(p) ==
    IF TruthyStr(ReferencedSchema(PropertyRefName(p), DocumentSchemas)[1].loopId)
    THEN [kind |-> "loop",
          name |-> ReferencedSchema(PropertyRefName(p), DocumentSchemas)[1].loopId]
    ELSE [kind |-> "segment",
          name |-> ReferencedSchema(PropertyRefName(p), DocumentSchemas)[1].segId]

\* the structural properties of the root, in the order the text declares them
DeclaredChildren ==
    LET structural == SelectSeq(OrEmpty(Root.properties), IsStructural)
    IN  [i \in 1..Len(structural) |-> ChildOf(structural[i])]

\* the segments and loops of a loop, taken together
Children(loop) ==
    [i \in 1..Len(loop.segments) |->
       [kind |-> "segment", name |-> loop.segments[i].name, order |-> loop.segments[i].order]]
    \o [i \in 1..Len(loop.loops) |->
       [kind |-> "loop", name |-> loop.loops[i].name, order |-> loop.loops[i].order]]

\* the place of child i when the children are sorted by order
Rank(kids, i) == 1 + Cardinality({j \in 1..Len(kids) : kids[j].order[1] < kids[i].order[1]})

\* C13: the segments and loops of the synthetic top-level loop, taken
\* together and sorted by order, are the structural properties of the
\* transaction-set root in the order the document declares them, and no two
\* of them have the same order.
RootOrderReproduced ==
    SchemaImported =>
      LET kids == Children(outcome.value.loops[1])
          declared == DeclaredChildren
      IN  /\ Len(kids) = Len(declared)
          /\ \A i \in 1..Len(kids) : kids[i].order # None
          /\ \A i, j \in 1..Len(kids) : i # j => kids[i].order # kids[j].order
          /\ \A i \in 1..Len(kids) :
               [kind |-> kids[i].kind, name |-> kids[i].name] = declared[Rank(kids, i)]

\* C14: a successful schema-format import returns a Specification with
\* exactly one top-level loop, named TS followed by the transaction-set code,
\* Mandatory, with minUse, maxUse, baseMinUse and baseMaxUse all 1, that holds
\* every segment and loop built from the root definition's properties.
OneSyntheticLoop ==
    SchemaImported =>
      /\ Len(outcome.value.loops) = 1
      /\ outcome.value.loops[1].name = Some("TS" \o Root.msgId[1])
      /\ outcome.value.loops[1].usage = "M"
      /\ outcome.value.loops[1].minUse = 1
      /\ outcome.value.loops[1].maxUse = 1
      /\ outcome.value.loops[1].baseMinUse = Some(1)
      /\ outcome.value.loops[1].baseMaxUse = Some(1)
      /\ LET declared == DeclaredChildren
             kids == Children(outcome.value.loops[1])
         IN  /\ Len(kids) = Len(declared)
             /\ \A i \in 1..Len(declared) :
                  Cardinality({j \in 1..Len(declared) : declared[j] = declared[i]})
                  = Cardinality({j \in 1..Len(kids) :
                                   /\ kids[j].kind = declared[i].kind
                                   /\ kids[j].name = declared[i].name})

SyntheticLoopFilled ==
    /\ SchemaImported
    /\ Len(outcome.value.loops[1].segments) = 1
    /\ Len(outcome.value.loops[1].loops) = 1
    /\ outcome.value.loops[1].name = Some("TS810")

\* a sequence without its i-th entry
RemoveAt(seq, i) == SubSeq(seq, 1, i - 1) \o SubSeq(seq, i + 1, Len(seq))

\* the document without property i of its k-th definition
WithoutProperty(parsed, k, i) ==
    [parsed EXCEPT !.components =
       Some([@[1] EXCEPT !.schemas =
          Some([@[1] EXCEPT ![k].def.properties = Some(RemoveAt(@[1], i))])])]

\* the property refers to a definition that components.schemas does not hold
NamesAbsent(p, schemas) ==
    /\ TruthyStr(PropertyRefName(p))
    /\ \A n \in 1..Len(schemas) : schemas[n].name # PropertyRefName(p)[1]

\* the properties of definition k are read as segments and loops: k is the
\* transaction-set root or a loop definition
ReadStructurally(schemas, k) ==
    \/ TruthyStr(schemas[k].def.loopId)
    \/ /\ TransactionSetIndex(SchemaEntries(schemas)) # 0
       /\ schemas[k] = SchemaEntries(schemas)[TransactionSetIndex(SchemaEntries(schemas))]

\* the unresolved properties of the document: definition and position
UnresolvedProperties(schemas) ==
    {ki \in (1..Len(schemas)) \X (1..MaxProps + 1) :
       /\ ReadStructurally(schemas, ki[1])
       /\ ki[2] <= Len(OrEmpty(schemas[ki[1]].def.properties))
       /\ NamesAbsent(schemas[ki[1]].def.properties[1][ki[2]], schemas)}

\* C15: a schema-format import of a document in which a property of the root
\* or of a loop definition refers to a definition that components.schemas
\* does not hold completes exactly as the import of the same document
\* without that property: no loop, no segment and no error comes of it, and
\* the other properties are converted as if it were not declared.
UnresolvedReferenceDropped ==
    [][(op' = "parseAndImportSpec" /\ input.text.valid /\ BothKeys(Parsed)) =>
         \A ki \in UnresolvedProperties(SchemasOf(Parsed)) :
            outcome' = importOpenAPIFormat(WithoutProperty(Parsed, ki[1], ki[2]),
                                           clock', uuidCount).completion]_vars

\* the property refers to a segment definition
IsSegmentProperty(p) == IsStructural(p) /\ ChildOf(p).kind = "segment"

\* the properties of the root that refer to segment definitions, in the
\* order the importer reads them
RootSegmentProperties == SelectSeq(PropertyEntries(OrEmpty(Root.properties)), IsSegmentProperty)

\* C16: in a schema-format import, each segment of the top-level loop is
\* Mandatory when the key of the property that refers to it is in the root's
\* required list, and Optional when it is not, also when that key is not the
\* segment's x-openedi-segment-id.
UsageFollowsPropertyKey ==
    SchemaImported =>
      LET properties == RootSegmentProperties
          segments == outcome.value.loops[1].segments
      IN  /\ Len(segments) = Len(properties)
          /\ \A j \in 1..Len(segments) :
               segments[j].usage =
                 IF Contains(OrEmpty(Root.required), properties[j].key) THEN "M" ELSE "O"

\* the number of loops on the longest path from a top-level loop down
RECURSIVE LoopDepth(_)
LoopDepth(loops) ==
    IF loops = <<>> THEN 0
    ELSE 1 + LoopDepth(CHOOSE deepest \in {loops[i].loops : i \in 1..Len(loops)} :
                         \A i \in 1..Len(loops) :
                            LoopDepth(loops[i].loops) <= LoopDepth(deepest))

\* the loop definitions of the imported document
LoopDefinitions == {n \in 1..Len(DocumentSchemas) : TruthyStr(DocumentSchemas[n].def.loopId)}

\* C17: the schema-format conversion of a document never follows a reference
\* cycle: it does not end by exhausting the call stack, and the Specification
\* it returns nests loops no deeper than the top-level loop plus one loop per
\* loop definition, so no loop definition is below itself.
ReferenceCycleNotFollowed ==
    (op = "parseAndImportSpec" /\ input.text.valid /\ BothKeys(Parsed)) =>
      IF outcome.ok
      THEN LoopDepth(outcome.value.loops) <= 1 + Cardinality(LoopDefinitions)
      ELSE outcome.error.name # "RangeError"

\* the codes the registry knows
RegistryCodes == {TRANSACTION_SET_TEMPLATES[i].code : i \in 1..Len(TRANSACTION_SET_TEMPLATES)}

\* the name the registry holds for a code it knows
RegistryName(code) ==
    TRANSACTION_SET_TEMPLATES[CHOOSE i \in 1..Len(TRANSACTION_SET_TEMPLATES) :
                                TRANSACTION_SET_TEMPLATES[i].code = code].name

\* C18: createEmptySpecification returns a Specification with no loops and
\* no examples; its name is the caller's name when a non-empty one is given,
\* else the registry's name for a code the registry knows, else a label that
\* contains the code; its ediVersion is the argument, or 005010 without one.
EmptySpecificationNamed ==
    op = "createEmptySpecification" =>
      /\ outcome.ok
      /\ outcome.value.loops = <<>>
      /\ outcome.value.examples = <<>>
      /\ outcome.value.metadata.ediVersion =
           (IF input.args.ediVersion = None THEN "005010" ELSE input.args.ediVersion[1])
      /\ IF TruthyStr(input.args.name)
         THEN outcome.value.metadata.name = input.args.name[1]
         ELSE IF input.args.transactionSetId \in RegistryCodes
         THEN outcome.value.metadata.name = RegistryName(input.args.transactionSetId)
         ELSE Includes(outcome.value.metadata.name, input.args.transactionSetId)

\* each legacy loop node at any depth, with the Loop converted from it
RECURSIVE ConvertedLoops(_, _)
ConvertedLoops(loops, outs) ==
    UNION {{<<loops[i], outs[i]>>} \cup ConvertedLoops(OrEmpty(loops[i].Loops), outs[i].loops) :
           i \in 1..Len(loops)}

\* C19: importOpenEDISpec returns for every legacy-format document: the
\* Specification has one loop per entry of Loops, none when Loops is empty or
\* omitted, and every loop and segment has one entry per entry of the node's
\* Segments, Loops or Elements list, none when the node omits the list.
LegacyNeverRaises ==
    op = "importOpenEDISpec" =>
      /\ outcome.ok
      /\ Len(outcome.value.loops) = Len(OrEmpty(Field(input.doc, "Loops")))
      /\ \A pair \in ConvertedLoops(OrEmpty(Field(input.doc, "Loops")), outcome.value.loops) :
           /\ Len(pair[2].segments) = Len(OrEmpty(pair[1].Segments))
           /\ Len(pair[2].loops) = Len(OrEmpty(pair[1].Loops))
           /\ \A i \in 1..Len(pair[2].segments) :
                Len(pair[2].segments[i].elements)
                = Len(OrEmpty(pair[1].Segments[1][i].Elements))

OmittedListsConverted ==
    /\ op = "importOpenEDISpec"
    /\ outcome.ok
    /\ Len(outcome.value.loops) = 1
    /\ input.doc.Loops[1][1].Loops = None
    /\ input.doc.Loops[1][1].Segments # None
    /\ Len(outcome.value.loops[1].segments) = 1
    /\ input.doc.Loops[1][1].Segments[1][1].Elements = None
    /\ outcome.value.loops[1].segments[1].elements = <<>>
    /\ outcome.value.loops[1].loops = <<>>

\* the loops the editors show now, and the loops as they were imported
Shown == specification[1].loops
AsImported == outcome.value.loops

\* C20: after any sequence of editor operations on an imported
\* Specification, every loop and segment that still exists has the baseUsage,
\* baseMinUse and baseMaxUse the import gave it, and every element that still
\* exists has the baseUsage and baseCodes the import gave it.
BaseFieldsKept ==
    specification # None =>
      /\ \A now \in LoopsIn(Shown) \cup SegmentsIn(Shown),
            before \in LoopsIn(AsImported) \cup SegmentsIn(AsImported) :
           now.id = before.id =>
             /\ now.baseUsage = before.baseUsage
             /\ now.baseMinUse = before.baseMinUse
             /\ now.baseMaxUse = before.baseMaxUse
      /\ \A now \in ElementsIn(Shown), before \in ElementsIn(AsImported) :
           now.id = before.id =>
             /\ now.baseUsage = before.baseUsage
             /\ now.baseCodes = before.baseCodes

ImportedEntitiesEdited ==
    /\ specification # None
    /\ edits = MaxEdits
    /\ \E now \in SegmentsIn(Shown), before \in SegmentsIn(AsImported) :
         /\ now.id = before.id
         /\ now.usage # before.usage
         /\ now.baseUsage = before.baseUsage
         /\ \E i \in 1..Len(now.elements), j \in 1..Len(before.elements) :
              /\ now.elements[i].id = before.elements[j].id
              /\ now.elements[i].usage # before.elements[j].usage
              /\ now.elements[i].baseUsage = before.elements[j].baseUsage
              /\ before.elements[j].baseCodes # None

\* C21: in a schema-format import the segments and loops built from the
\* root's properties carry the order values 0, 1, ..., k-1 in the order the
\* document declares the k structural properties: the i-th of them has order
\* i-1, so a property that resolves to neither kind, or does not resolve,
\* takes no index.
OrderCountsStructuralOnly ==
    SchemaImported =>
      LET kids == Children(outcome.value.loops[1])
          declared == DeclaredChildren
      IN  /\ Len(kids) = Len(declared)
          /\ \A i \in 1..Len(declared) :
               \E j \in 1..Len(kids) :
                  /\ kids[j].kind = declared[i].kind
                  /\ kids[j].name = declared[i].name
                  /\ kids[j].order = Some(i - 1)

\* the property refers to a loop definition
IsLoopProperty(p) == IsStructural(p) /\ ChildOf(p).kind = "loop"

\* the properties of the root that refer to loop definitions, in the order
\* the importer reads them
RootLoopProperties == SelectSeq(PropertyEntries(OrEmpty(Root.properties)), IsLoopProperty)

\* the occurrences a property declares: the cap of an array, the sentinel for
\* an array without one, 1 for a single occurrence
DeclaredMaxUse(p) ==
    IF p.type # Some("array") THEN 1
    ELSE IF p.maxItems # None THEN p.maxItems[1]
    ELSE Unbounded

\* C22: in a schema-format import, the segment or loop built from a property
\* of the root has as maxUse and as baseMaxUse the property's maxItems when
\* the property is an array with a cap, 999999 when it is an array without
\* one, and 1 when it is not an array.
MaxUseFollowsMaxItems ==
    SchemaImported =>
      LET segmentProperties == RootSegmentProperties
          loopProperties == RootLoopProperties
          top == outcome.value.loops[1]
      IN  /\ Len(top.segments) = Len(segmentProperties)
          /\ Len(top.loops) = Len(loopProperties)
          /\ \A j \in 1..Len(top.segments) :
               /\ top.segments[j].maxUse = DeclaredMaxUse(segmentProperties[j])
               /\ top.segments[j].baseMaxUse = Some(DeclaredMaxUse(segmentProperties[j]))
          /\ \A j \in 1..Len(top.loops) :
               /\ top.loops[j].maxUse = DeclaredMaxUse(loopProperties[j])
               /\ top.loops[j].baseMaxUse = Some(DeclaredMaxUse(loopProperties[j]))

RECURSIVE LoopsFollowRequired(_, _)
\* the loops built from a definition are Mandatory exactly when that
\* definition's required list names their property, and so on below them
LoopsFollowRequired(definition, loops) ==
    LET loopProperties ==
          SelectSeq(PropertyEntries(OrEmpty(definition.properties)), IsLoopProperty)
    IN  /\ Len(loops) = Len(loopProperties)
        /\ \A j \in 1..Len(loops) :
             /\ loops[j].usage =
                  IF Contains(OrEmpty(definition.required), loopProperties[j].key)
                  THEN "M" ELSE "O"
             /\ LoopsFollowRequired(
                  ReferencedSchema(PropertyRefName(loopProperties[j]), DocumentSchemas)[1],
                  loops[j].loops)

\* C23: in a schema-format import, a loop built from a loop definition is
\* Mandatory exactly when the required list of the definition that declares
\* the property names the property, and Optional otherwise, at the root and
\* inside every loop definition, whose own required list decides for the
\* loops below it.
LoopUsageFromDeclaringDefinition ==
    SchemaImported => LoopsFollowRequired(Root, outcome.value.loops[1].loops)

OptionalLoopHoldsMandatoryLoop ==
    /\ SchemaImported
    /\ Root.required = None
    /\ Len(outcome.value.loops[1].loops) = 1
    /\ outcome.value.loops[1].loops[1].name = Some("HL")
    /\ outcome.value.loops[1].loops[1].usage = "O"
    /\ Len(outcome.value.loops[1].loops[1].loops) = 1
    /\ outcome.value.loops[1].loops[1].loops[1].usage = "M"

\* the segments of a legacy document paired with the segments converted from
\* them
ConvertedSegmentsOf(segs, outs) ==
    {<<segs[i], outs[i]>> : i \in 1..Len(segs)}

RECURSIVE ConvertedSegmentPairs(_, _)
ConvertedSegmentPairs(loops, outs) ==
    UNION {ConvertedSegmentsOf(OrEmpty(loops[i].Segments), outs[i].segments)
             \cup ConvertedSegmentPairs(OrEmpty(loops[i].Loops), outs[i].loops) :
           i \in 1..Len(loops)}

\* the element converted from a source element at a place: named, typed and
\* used as the source element states
ConvertedFrom(element, source) ==
    /\ element.name = OrStr(source.Name, source.Id)
    /\ element.dataType = OrStr(source.DataType, Some("AN"))[1]
    /\ element.usage = parseUsage(source.Req)
    /\ (element.codeValues = None) = (Len(OrEmpty(source.Codes)) = 0)

\* C24: every segment the legacy converter produces from a source segment
\* with n elements has n elements, in source declaration order, at positions
\* 1, 2, ..., n, whatever number the source element identifiers carry.
PositionsByDeclarationOrder ==
    (op = "importOpenEDISpec" /\ outcome.ok) =>
      \A pair \in ConvertedSegmentPairs(OrEmpty(Field(input.doc, "Loops")),
                                       outcome.value.loops) :
        LET sources == OrEmpty(pair[1].Elements)
        IN  /\ Len(pair[2].elements) = Len(sources)
            /\ \A j \in 1..Len(sources) :
                 /\ pair[2].elements[j].position = j
                 /\ ConvertedFrom(pair[2].elements[j], sources[j])

NumberedElementPlacedFirst ==
    /\ op = "importOpenEDISpec"
    /\ outcome.ok
    /\ \E pair \in ConvertedSegmentPairs(OrEmpty(Field(input.doc, "Loops")),
                                        outcome.value.loops) :
         /\ Len(OrEmpty(pair[1].Elements)) = 2
         /\ OrEmpty(pair[1].Elements)[1].Id = Some("N104")
         /\ OrEmpty(pair[1].Elements)[2].Id = Some("N101")
         /\ pair[2].elements[1].position = 1
         /\ pair[2].elements[1].name = Some("N104")
         /\ pair[2].elements[2].position = 2

\* the places of allOf whose reference names a definition with an enum
EnumPlaces(prop) ==
    IF prop.allOf = None THEN {}
    ELSE {i \in 1..Len(prop.allOf[1]) :
            /\ TruthyStr(prop.allOf[1][i])
            /\ Lookup(Library, RemoveFirst(prop.allOf[1][i][1], RefPrefix)) # None
            /\ Lookup(Library, RemoveFirst(prop.allOf[1][i][1], RefPrefix))[1].enum # None}

\* the codes a property declares for its element, if it declares any
EnumSource(prop) ==
    IF prop.enum # None THEN prop.enum
    ELSE IF EnumPlaces(prop) = {} THEN None
    ELSE Lookup(Library,
                RemoveFirst(prop.allOf[1][Max(EnumPlaces(prop))][1], RefPrefix))[1].enum

\* the element holds these codes, each one included, and a base list of as
\* many; or it holds no list at all
CodesFrom(element, source) ==
    IF source = None
    THEN element.codeValues = None /\ element.baseCodes = None
    ELSE /\ element.codeValues # None
         /\ element.baseCodes # None
         /\ Len(element.codeValues[1].items) = Len(source[1])
         /\ Len(element.baseCodes[1].items) = Len(source[1])
         /\ \A i \in 1..Len(source[1]) :
              /\ element.codeValues[1].items[i].code = source[1][i]
              /\ element.codeValues[1].items[i].included

\* C25: an element of a segment definition takes its code values from the
\* property's own enum when it has one, or else from the enum of the last
\* allOf entry whose reference names a definition with an enum; every code
\* value is included; an element with no such enum has neither codeValues
\* nor baseCodes.
CodeValuesFromEnumSource ==
    (op = "importOpenAPISegment" /\ outcome.ok) =>
      /\ Len(outcome.value.elements) = Len(ElementEntries(input.args.schema))
      /\ \A i \in 1..Len(ElementEntries(input.args.schema)) :
           LET prop == ElementEntries(input.args.schema)[i]
           IN  \E j \in 1..Len(outcome.value.elements) :
                 /\ outcome.value.elements[j].name = Some(parseElementNameFromKey(prop.key))
                 /\ CodesFrom(outcome.value.elements[j], EnumSource(prop))

LastEnumAndOwnEnumUsed ==
    /\ op = "importOpenAPISegment"
    /\ outcome.ok
    /\ Len(outcome.value.elements) = 2
    /\ outcome.value.elements[1].name = Some(parseElementNameFromKey("Both_01"))
    /\ outcome.value.elements[1].codeValues[1].items[1].code = "ZZ"
    /\ outcome.value.elements[2].name = Some(parseElementNameFromKey("Two_02"))
    /\ Len(outcome.value.elements[2].codeValues[1].items) = 1
    /\ outcome.value.elements[2].codeValues[1].items[1].code = "92"

\* the declared properties of a definition but the one loop levels pass over
DeclaredButModel(schema) ==
    SelectSeq(PropertyEntries(OrEmpty(schema.properties)), LAMBDA p : p.key # "Model")

\* C26: the segment converted from a segment definition holds exactly one
\* element for each declared property other than Model, the property loop
\* levels pass over: no other declared property is dropped.
ElementPerDeclaredProperty ==
    (op = "importOpenAPISegment" /\ outcome.ok) =>
      /\ Len(outcome.value.elements) = Len(DeclaredButModel(input.args.schema))
      /\ \A i \in 1..Len(DeclaredButModel(input.args.schema)) :
           \E j \in 1..Len(outcome.value.elements) :
             outcome.value.elements[j].name =
               Some(parseElementNameFromKey(DeclaredButModel(input.args.schema)[i].key))

\* the substrings looked for, in the order they are looked for, and their tags
FormatTags ==
    <<[sub |-> "_ID", tag |-> "ID"], [sub |-> "_N0", tag |-> "N0"],
      [sub |-> "_N2", tag |-> "N2"], [sub |-> "_R", tag |-> "R"],
      [sub |-> "_DT", tag |-> "DT"], [sub |-> "_TM", tag |-> "TM"]>>

DataTypes == {"AN", "ID", "N0", "N2", "R", "DT", "TM"}

\* s holds sub somewhere, whatever the case of its letters
HoldsIgnoringCase(s, sub) ==
    \E i \in 1..(Len(s) - Len(sub) + 1) :
      \A k \in 1..Len(sub) : UpperChar(CharAt(s, i + k - 1)) = CharAt(sub, k)

\* the tag of the first substring of FormatTags the token holds
TagOf(format) ==
    IF format = None \/ \A k \in 1..Len(FormatTags) :
                          ~HoldsIgnoringCase(format[1], FormatTags[k].sub)
    THEN "AN"
    ELSE FormatTags[CHOOSE k \in 1..Len(FormatTags) :
                      /\ HoldsIgnoringCase(format[1], FormatTags[k].sub)
                      /\ \A m \in 1..(k - 1) :
                           ~HoldsIgnoringCase(format[1], FormatTags[m].sub)].tag

\* C27: the data type of an element is the tag of the first of _ID, _N0, _N2,
\* _R, _DT, _TM that its format token holds, compared without regard to case,
\* and AN when the token is absent or holds none of them; it is always one of
\* the seven tags.
DataTypeFromFormat ==
    (op = "importOpenAPISegment" /\ outcome.ok) =>
      /\ \A j \in 1..Len(outcome.value.elements) :
           outcome.value.elements[j].dataType \in DataTypes
      /\ \A i \in 1..Len(ElementEntries(input.args.schema)) :
           \E j \in 1..Len(outcome.value.elements) :
             /\ outcome.value.elements[j].name =
                  Some(parseElementNameFromKey(ElementEntries(input.args.schema)[i].key))
             /\ outcome.value.elements[j].dataType =
                  TagOf(ElementEntries(input.args.schema)[i].format)

LowerCaseTokenOfTwoTags ==
    /\ op = "importOpenAPISegment"
    /\ outcome.ok
    /\ input.args.schema \in FormatSchemas
    /\ input.args.schema.properties[1][1].format = Some("x12_r_n2")
    /\ Len(outcome.value.elements) = 1
    /\ outcome.value.elements[1].dataType = "N2"

\* C28: after an import of either format from a source whose declared maxima
\* are absent or not negative, every loop and every segment has
\* 0 <= minUse <= 1 <= maxUse, so that minUse never exceeds maxUse.
UseRangeOrdered ==
    Imported =>
      \A n \in LoopsIn(outcome.value.loops) \cup SegmentsIn(outcome.value.loops) :
        /\ 0 <= n.minUse
        /\ n.minUse <= 1
        /\ 1 <= n.maxUse
        /\ n.minUse <= n.maxUse

ZeroMaximaImported ==
    \/ /\ SchemaImported
       /\ \E i \in 1..Len(PropertyEntries(OrEmpty(Root.properties))) :
            /\ PropertyEntries(OrEmpty(Root.properties))[i].key = "N1"
            /\ PropertyEntries(OrEmpty(Root.properties))[i].maxItems = Some(0)
       /\ \E g \in SegmentsIn(outcome.value.loops) : g.maxUse = Unbounded
    \/ /\ op = "importOpenEDISpec"
       /\ outcome.ok
       /\ \E pair \in ConvertedSegmentPairs(OrEmpty(Field(input.doc, "Loops")),
                                           outcome.value.loops) :
            /\ pair[1].Max = Some(0)
            /\ pair[1].Req = Some("M")
            /\ pair[2].minUse = 1
            /\ pair[2].maxUse = 1

\* the elements an import or a segment conversion returned
ReturnedElements ==
    IF Imported THEN ElementsIn(outcome.value.loops)
    ELSE IF op = "importOpenAPISegment" /\ outcome.ok
    THEN {outcome.value.elements[j] : j \in 1..Len(outcome.value.elements)}
    ELSE {}

\* a list after entry.included = v was assigned to one of the entries: the
\* entries of the list that are that same object show the assignment
AfterIncluded(list, entry, v) ==
    [k \in 1..Len(list.items) |->
       IF list.items[k].ref = entry.ref
       THEN [list.items[k] EXCEPT !.included = v]
       ELSE list.items[k]]

\* C29: after an import, the entries of an element's baseCodes are not the
\* entries of its codeValues: excluding an entry of codeValues in place
\* leaves the entry of baseCodes at the same place included, as imported.
BaseCodeEntriesNotShared ==
    \A e \in ReturnedElements :
      (e.codeValues # None /\ e.baseCodes # None) =>
        \A i \in 1..Len(e.codeValues[1].items) :
          /\ e.baseCodes[1].items[i].ref # e.codeValues[1].items[i].ref
          /\ ~AfterIncluded(e.codeValues[1], e.codeValues[1].items[i], FALSE)[i].included
          /\ AfterIncluded(e.baseCodes[1], e.codeValues[1].items[i], FALSE)[i].included

\* C30: after a legacy import, the version between the slashes of
\* metadata.baseSpecReference is metadata.ediVersion, also when the document
\* states no Version and ediVersion is 005010.
ReferenceVersionIsEdiVersion ==
    (op = "importOpenEDISpec" /\ outcome.ok) =>
      outcome.value.metadata.baseSpecReference =
        Some("OpenEDI/" \o outcome.value.metadata.ediVersion \o "/"
               \o TemplateStr(Field(input.doc, "TransactionSetId")))

====
